---- MODULE Spec2Model ----
(***************************************************************************)
(* Model of the per-link D-Bus interface of systemd-resolved               *)
(* (src/resolve/resolved-link-bus.c): one Link object, the ten mutating    *)
(* methods of org.freedesktop.resolve1.Link, the asynchronous polkit gate  *)
(* and the events of the surrounding service that the handlers depend on   *)
(* (specification Spec; ReplaceSpec has the replace-set handlers alone,    *)
(* with longer requests, InterleaveSpec calls that arrive while another    *)
(* waits for polkit, SaveSpec the state file that link_save_user() writes);*)
(* and of udevadm info (src/udev/udevadm-info.c):                          *)
(* its command line (specification InfoSpec) and its attribute table       *)
(* (specification WalkSpec).                                               *)
(***************************************************************************)
EXTENDS Integers, Sequences, FiniteSets, TLC

(***************************************************************************)
(* Bounds of the model.                                                    *)
(***************************************************************************)
\* Longest array a request body carries.
MaxBatch == 2

(***************************************************************************)
(* Values.                                                                 *)
(***************************************************************************)
\* A NULL server_name (a server given without one).
NULL == "NULL"

\* A NULL current_dns_server; entries live at addresses 1, 2, ...
NoServer == 0

\* Outcome of bus_verify_polkit_async(): r < 0, r == 0, r > 0.
AuthorizationOutcome == {"Granted", "Denied", "Pending"}

\* What a handler returns to the bus dispatcher.
Busy == "BUS_ERROR_LINK_BUSY"
InvalidArgs == "SD_BUS_ERROR_INVALID_ARGS"
AccessDenied == "SD_BUS_ERROR_ACCESS_DENIED"
ParseError == "EBADMSG"
NoMemory == "ENOMEM"
PolkitPending == "1"
Replied == "sd_bus_reply_method_return"
\* The dispatcher found no object for the path: no handler ran.
UnknownObject == "SD_BUS_ERROR_UNKNOWN_OBJECT"

\* Addresses a request may carry: (family, address bytes).
DnsAddresses ==
    { [family |-> "AF_INET", address |-> "192.0.2.1"],
      [family |-> "AF_INET6", address |-> "2001:db8::1"] }

\* What a SetDNSEx request may carry: (family, address, port, server name).
DnsExItems ==
    { [family |-> "AF_INET", address |-> "192.0.2.1", port |-> 53,
       server_name |-> NULL],
      [family |-> "AF_INET", address |-> "192.0.2.1", port |-> 53,
       server_name |-> "dns.example"] }

\* Search domains a SetDomains request may carry, (name, route_only): the
\* ones the handler accepts and the ones it does not.
DomainItems ==
    { [name |-> "a.example", route_only |-> FALSE],
      [name |-> "a.example", route_only |-> TRUE],
      [name |-> "b.example", route_only |-> FALSE],
      [name |-> ".", route_only |-> TRUE] }

BadDomainItems ==
    { [name |-> ".", route_only |-> FALSE],
      [name |-> "bad..name", route_only |-> FALSE] }

\* Names a SetDNSSECNegativeTrustAnchors request may carry.
NtaNames == {"a.example", "b.example"}

BadNtaNames == {"bad..name"}

\* Strings a mode setter may be sent.
ModeStrings == {"", "no", "yes", "bogus"}

\* Sequences over S of length at most n.
SeqUpTo(S, n) == UNION { [1..k -> S] : k \in 0..n }

\* Set of the elements of a sequence.
Range(s) == { s[i] : i \in DOMAIN s }

\* Entries are told apart by their address, id. The allocator puts a new
\* entry at the smallest address no entry of the list has.
FreeId(list) ==
    CHOOSE n \in 1..(Len(list) + 1) :
        /\ \A i \in DOMAIN list : list[i].id # n
        /\ \A m \in 1..(n - 1) : \E i \in DOMAIN list : list[i].id = m

\* The list without its i-th entry.
RemoveAt(list, i) ==
    [j \in 1..(Len(list) - 1) |-> IF j < i THEN list[j] ELSE list[j + 1]]

(***************************************************************************)
(* State.                                                                  *)
(***************************************************************************)
VARIABLES
    link_exists,    \* the link is in m->links
    link,           \* the Link object
    pending,        \* the method call polkit has suspended, or NoMessage
    last,           \* the last handler invocation and what it returned
    udevadm,        \* a run of udevadm info: what it was given, what it did
    saved           \* the lists of the link as its state file holds them
                    \* (in SaveSpec, which follows the state file)

vars == <<link_exists, link, pending, last, udevadm, saved>>

NoMessage == [method |-> "none"]

(***************************************************************************)
(* The DNS server list (resolved-dns-server.c, called from the handlers).  *)
(***************************************************************************)
dns_server_mark_all(servers) ==
    [i \in DOMAIN servers |-> [servers[i] EXCEPT !.marked = TRUE]]

\* A finder that takes the port for part of the key.
dns_server_find_with_port(servers, family, address, port, server_name) ==
    LET hits == { i \in DOMAIN servers :
                    /\ servers[i].family = family
                    /\ servers[i].address = address
                    /\ servers[i].port = port
                    /\ servers[i].server_name = server_name }
    IN  IF hits = {} THEN 0 ELSE CHOOSE i \in hits : \A j \in hits : i <= j

\* Index of the first entry matching the candidate, 0 for none. The port is
\* not part of the match.
dns_server_find(servers, family, address, port, server_name) ==
    LET hits == { i \in DOMAIN servers :
                    /\ servers[i].family = family
                    /\ servers[i].address = address
                    /\ servers[i].server_name = server_name }
    IN  IF hits = {} THEN 0 ELSE CHOOSE i \in hits : \A j \in hits : i <= j

\* An unmark that leaves the entry where it is.
dns_server_unmark_in_place(servers, i) ==
    [servers EXCEPT ![i].marked = FALSE]

dns_server_move_back_and_unmark(servers, i) ==
    Append(RemoveAt(servers, i), [servers[i] EXCEPT !.marked = FALSE])

dns_server_new(servers, family, address, port, server_name) ==
    Append(servers, [id |-> FreeId(servers), family |-> family,
                     address |-> address, port |-> port,
                     server_name |-> server_name, marked |-> FALSE])

dns_server_unlink_marked(servers) ==
    SelectSeq(servers, LAMBDA s : ~s.marked)

dns_server_unlink_all(servers) == <<>>

\* dns_server_unlink() drops the link's current server when it is the entry
\* that goes away.
current_after_unlink(current, servers) ==
    IF \E i \in DOMAIN servers : servers[i].id = current THEN current ELSE NoServer

(***************************************************************************)
(* Request decoding.                                                       *)
(***************************************************************************)
\* bus_message_read_dns_servers(): the array of in_addr_full of the request,
\* or the error of the first element that does not decode. A plain SetDNS
\* element has no port and no server name.
bus_message_read_dns_servers(message, extended) ==
    IF message.kind = "unparsable" THEN [r |-> ParseError, dns |-> <<>>]
    ELSE IF message.kind = "invalid" THEN [r |-> InvalidArgs, dns |-> <<>>]
    ELSE [r |-> "0",
          dns |-> [i \in DOMAIN message.items |->
                     [family |-> message.items[i].family,
                      address |-> message.items[i].address,
                      port |-> IF extended THEN message.items[i].port ELSE 0,
                      server_name |-> IF extended
                                      THEN message.items[i].server_name
                                      ELSE NULL]]]

(***************************************************************************)
(* Handlers. Each returns the link as the handler leaves it, the handler's *)
(* return value and the calls it made to the rest of the service, in       *)
(* order.                                                                  *)
(***************************************************************************)
Return(l, r, calls) == [l |-> l, r |-> r, calls |-> calls]

\* A failure injected into the handling of a request: the call `what`
\* (a message read, a finder, a constructor) fails for the at-th element, or
\* the side effect `what` fails (at 0).
NoFail == [at |-> 0, what |-> "none"]

\* The side effects that report failure; the handlers call them as
\* (void) f(...), so the result goes nowhere.
SideEffects == {"link_save_user", "manager_write_resolv_conf", "manager_send_changed"}

\* verify_unmanaged_link() without the test of is_managed.
verify_unmanaged_link_loopback_only(l) ==
    IF l.flags_loopback THEN Busy ELSE "0"

verify_unmanaged_link(l) ==
    IF l.flags_loopback THEN Busy
    ELSE IF l.is_managed THEN Busy
    ELSE "0"

\* The gate with a denial taken for a grant.
polkit_branch_denied_proceeds(auth) ==
    CASE auth = "Denied" -> "proceed"
      [] auth = "Pending" -> "callback"
      [] auth = "Granted" -> "proceed"

\* The gate with the r == 0 test left out: a handler goes on while polkit
\* still asks.
polkit_branch_pending_proceeds(auth) ==
    CASE auth = "Denied" -> "fail"
      [] auth = "Pending" -> "proceed"
      [] auth = "Granted" -> "proceed"

\* The three ways a handler goes on after bus_verify_polkit_async().
polkit_branch(auth) ==
    CASE auth = "Denied" -> "fail"
      [] auth = "Pending" -> "callback"
      [] auth = "Granted" -> "proceed"

\* What a handler returns when it does not go on after the gate.
polkit_return(auth) ==
    IF polkit_branch(auth) = "fail" THEN AccessDenied ELSE PolkitPending

\* A round that never looks for the entry it could keep.
set_dns_servers_step_always_new(servers, c, new_fails) ==
    IF new_fails
    THEN [servers |-> dns_server_unlink_all(servers), r |-> NoMemory]
    ELSE [servers |-> dns_server_new(servers, c.family, c.address,
                                     c.port, c.server_name),
          r |-> "0"]

\* One round of the loop over the decoded servers. r is "0" or the error of
\* dns_server_new(), which fails when new_fails.
set_dns_servers_step(servers, c, new_fails) ==
    LET s == dns_server_find(servers, c.family, c.address, c.port, c.server_name)
    IN  IF s # 0
        THEN [servers |-> dns_server_move_back_and_unmark(servers, s), r |-> "0"]
        ELSE IF new_fails
        THEN [servers |-> dns_server_unlink_all(servers), r |-> NoMemory]
        ELSE [servers |-> dns_server_new(servers, c.family, c.address,
                                         c.port, c.server_name),
              r |-> "0"]

RECURSIVE set_dns_servers_loop(_, _, _, _)
set_dns_servers_loop(servers, dns, i, fail) ==
    IF i > Len(dns) THEN [servers |-> servers, r |-> "0"]
    ELSE LET step == set_dns_servers_step(servers, dns[i], fail.at = i)
         IN  IF step.r # "0" THEN step
             ELSE set_dns_servers_loop(step.servers, dns, i + 1, fail)

\* No sweep: what the loop left stays.
set_dns_servers_sweep_none(servers) == servers

set_dns_servers_sweep(servers) == dns_server_unlink_marked(servers)

set_dns_servers_effects ==
    <<"link_allocate_scopes", "link_save_user", "manager_write_resolv_conf",
      "manager_send_changed", "sd_bus_reply_method_return">>

WithServers(l, servers) ==
    [l EXCEPT !.dns_servers = servers,
              !.current_dns_server = current_after_unlink(@, servers)]

\* A SetDNS that writes the state file on its way out of a failed
\* reconciliation as well.
bus_link_method_set_dns_servers_internal_saving(l, message, auth, fail, extended) ==
    IF verify_unmanaged_link(l) # "0"
    THEN Return(l, verify_unmanaged_link(l), <<>>)
    ELSE LET rd == bus_message_read_dns_servers(message, extended) IN
    IF rd.r # "0" THEN Return(l, rd.r, <<"read">>)
    ELSE IF polkit_branch(auth) # "proceed"
    THEN Return(l, polkit_return(auth), <<"read", "polkit">>)
    ELSE LET loop == set_dns_servers_loop(dns_server_mark_all(l.dns_servers),
                                          rd.dns, 1, fail) IN
    IF loop.r # "0"
    THEN Return(WithServers(l, loop.servers), loop.r,
                <<"read", "polkit", "link_save_user">>)
    ELSE Return(WithServers(l, set_dns_servers_sweep(loop.servers)),
                Replied, <<"read", "polkit">> \o set_dns_servers_effects)

bus_link_method_set_dns_servers_internal(l, message, auth, fail, extended) ==
    IF verify_unmanaged_link(l) # "0"
    THEN Return(l, verify_unmanaged_link(l), <<>>)
    ELSE LET rd == bus_message_read_dns_servers(message, extended) IN
    IF rd.r # "0" THEN Return(l, rd.r, <<"read">>)
    ELSE IF polkit_branch(auth) # "proceed"
    THEN Return(l, polkit_return(auth), <<"read", "polkit">>)
    ELSE LET loop == set_dns_servers_loop(dns_server_mark_all(l.dns_servers),
                                          rd.dns, 1, fail) IN
    IF loop.r # "0"
    THEN Return(WithServers(l, loop.servers), loop.r, <<"read", "polkit">>)
    ELSE Return(WithServers(l, set_dns_servers_sweep(loop.servers)),
                Replied, <<"read", "polkit">> \o set_dns_servers_effects)

\* A SetDNS that takes the failure of a side effect for its own and undoes
\* what it did.
bus_link_method_set_dns_servers_checking_effects(l, message, auth, fail) ==
    LET out == bus_link_method_set_dns_servers_internal(l, message, auth, fail, FALSE)
    IN  IF fail.what \in Range(out.calls)
        THEN Return(l, "EIO", <<"read", "polkit">>)
        ELSE out

bus_link_method_set_dns_servers(l, message, auth, fail) ==
    bus_link_method_set_dns_servers_internal(l, message, auth, fail, FALSE)

bus_link_method_set_dns_servers_ex(l, message, auth, fail) ==
    bus_link_method_set_dns_servers_internal(l, message, auth, fail, TRUE)

(***************************************************************************)
(* The search domain list (resolved-dns-search-domain.c) and the domain    *)
(* name checks (dns-domain.c), called from the handlers.                   *)
(***************************************************************************)
dns_name_is_valid(name) == name \in {"a.example", "b.example", "."}

dns_name_is_root(name) == name = "."

dns_search_domain_mark_all(domains) ==
    [i \in DOMAIN domains |-> [domains[i] EXCEPT !.marked = TRUE]]

\* A finder that sees only the entries still marked: those the call has
\* neither kept nor made.
dns_search_domain_find_marked(domains, name) ==
    LET hits == { i \in DOMAIN domains : domains[i].name = name /\ domains[i].marked }
    IN  IF hits = {} THEN 0 ELSE CHOOSE i \in hits : \A j \in hits : i <= j

\* Index of the first entry of that name, 0 for none.
dns_search_domain_find(domains, name) ==
    LET hits == { i \in DOMAIN domains : domains[i].name = name }
    IN  IF hits = {} THEN 0 ELSE CHOOSE i \in hits : \A j \in hits : i <= j

dns_search_domain_move_back_and_unmark(domains, i) ==
    Append(RemoveAt(domains, i), [domains[i] EXCEPT !.marked = FALSE])

dns_search_domain_new(domains, name) ==
    Append(domains, [id |-> FreeId(domains), name |-> name,
                     route_only |-> FALSE, marked |-> FALSE])

dns_search_domain_unlink_marked(domains) ==
    SelectSeq(domains, LAMBDA d : ~d.marked)

dns_search_domain_unlink_all(domains) == <<>>

\* The first loop of SetDomains without the test for the root domain.
RECURSIVE set_domains_validate_names_only(_, _)
set_domains_validate_names_only(items, i) ==
    IF i > Len(items) THEN "0"
    ELSE IF ~dns_name_is_valid(items[i].name) THEN InvalidArgs
    ELSE set_domains_validate_names_only(items, i + 1)

\* The first loop of SetDomains over the elements from the i-th on: "0" or
\* the error of the first element that is not acceptable.
RECURSIVE set_domains_validate(_, _)
set_domains_validate(items, i) ==
    IF i > Len(items) THEN "0"
    ELSE IF ~dns_name_is_valid(items[i].name) THEN InvalidArgs
    ELSE IF ~items[i].route_only /\ dns_name_is_root(items[i].name) THEN InvalidArgs
    ELSE set_domains_validate(items, i + 1)

\* A round that leaves the route_only of the entry as it finds it.
set_domains_step_keeping_flag(domains, item, failing) ==
    IF failing = "read" THEN [domains |-> domains, r |-> ParseError]
    ELSE IF failing = "find" THEN [domains |-> domains, r |-> NoMemory]
    ELSE LET d == dns_search_domain_find(domains, item.name) IN
         IF d = 0 /\ failing = "new" THEN [domains |-> domains, r |-> NoMemory]
         ELSE [domains |-> IF d > 0
                           THEN dns_search_domain_move_back_and_unmark(domains, d)
                           ELSE dns_search_domain_new(domains, item.name),
               r |-> "0"]

\* One round of the second loop of SetDomains. The entry found or created
\* ends at the back of the list, where its route_only is set.
set_domains_step(domains, item, failing) ==
    IF failing = "read" THEN [domains |-> domains, r |-> ParseError]
    ELSE IF failing = "find" THEN [domains |-> domains, r |-> NoMemory]
    ELSE LET d == dns_search_domain_find(domains, item.name) IN
         IF d = 0 /\ failing = "new" THEN [domains |-> domains, r |-> NoMemory]
         ELSE LET moved == IF d > 0
                           THEN dns_search_domain_move_back_and_unmark(domains, d)
                           ELSE dns_search_domain_new(domains, item.name)
              IN  [domains |-> [moved EXCEPT ![Len(moved)].route_only =
                                                item.route_only],
                   r |-> "0"]

RECURSIVE set_domains_loop(_, _, _, _)
set_domains_loop(domains, items, i, fail) ==
    IF i > Len(items)
    THEN [domains |-> domains,
          r |-> IF fail.at = i /\ fail.what = "read" THEN ParseError ELSE "0"]
    ELSE LET step == set_domains_step(domains, items[i],
                                      IF fail.at = i THEN fail.what ELSE "none")
         IN  IF step.r # "0" THEN step
             ELSE set_domains_loop(step.domains, items, i + 1, fail)

\* A clear that removes only what is still marked and so leaves the list
\* partly reconciled.
set_domains_clear_marked(domains) == dns_search_domain_unlink_marked(domains)

\* The label clear: of SetDomains.
set_domains_clear(domains) == dns_search_domain_unlink_all(domains)

\* No sweep: what the loop left stays, marks included.
set_domains_sweep_none(domains) == domains

set_domains_sweep(domains) == dns_search_domain_unlink_marked(domains)

set_domains_effects ==
    <<"link_save_user", "manager_write_resolv_conf", "sd_bus_reply_method_return">>

\* A handler that empties the list while polkit still asks, to build it
\* again when it is called back.
bus_link_method_set_domains_clearing_while_pending(l, message, auth, fail) ==
    IF verify_unmanaged_link(l) # "0"
    THEN Return(l, verify_unmanaged_link(l), <<>>)
    ELSE IF message.kind # "ok" THEN Return(l, ParseError, <<"read">>)
    ELSE IF set_domains_validate(message.items, 1) # "0"
    THEN Return(l, set_domains_validate(message.items, 1), <<"read">>)
    ELSE IF polkit_branch(auth) = "callback"
    THEN Return([l EXCEPT !.search_domains = set_domains_clear(l.search_domains)],
                polkit_return(auth), <<"read", "polkit">>)
    ELSE IF polkit_branch(auth) # "proceed"
    THEN Return(l, polkit_return(auth), <<"read", "polkit">>)
    ELSE LET loop == set_domains_loop(dns_search_domain_mark_all(l.search_domains),
                                      message.items, 1, fail) IN
    IF loop.r # "0"
    THEN Return([l EXCEPT !.search_domains = set_domains_clear(loop.domains)],
                loop.r, <<"read", "polkit", "read">>)
    ELSE Return([l EXCEPT !.search_domains = set_domains_sweep(loop.domains)],
                Replied, <<"read", "polkit", "read">> \o set_domains_effects)

bus_link_method_set_domains(l, message, auth, fail) ==
    IF verify_unmanaged_link(l) # "0"
    THEN Return(l, verify_unmanaged_link(l), <<>>)
    ELSE IF message.kind # "ok" THEN Return(l, ParseError, <<"read">>)
    ELSE IF set_domains_validate(message.items, 1) # "0"
    THEN Return(l, set_domains_validate(message.items, 1), <<"read">>)
    ELSE IF polkit_branch(auth) # "proceed"
    THEN Return(l, polkit_return(auth), <<"read", "polkit">>)
    ELSE LET loop == set_domains_loop(dns_search_domain_mark_all(l.search_domains),
                                      message.items, 1, fail) IN
    IF loop.r # "0"
    THEN Return([l EXCEPT !.search_domains = set_domains_clear(loop.domains)],
                loop.r, <<"read", "polkit", "read">>)
    ELSE Return([l EXCEPT !.search_domains = set_domains_sweep(loop.domains)],
                Replied, <<"read", "polkit", "read">> \o set_domains_effects)

(***************************************************************************)
(* The scalar settings.                                                    *)
(***************************************************************************)
\* A mode that is not set (_DNSSEC_MODE_INVALID, _DNS_OVER_TLS_MODE_INVALID),
\* and the negative result of a from_string().
ModeInvalid == "_INVALID"

resolve_support_from_string(s) ==
    IF s \in {"no", "yes", "resolve"} THEN s ELSE ModeInvalid

dns_over_tls_mode_from_string(s) ==
    IF s \in {"no", "opportunistic", "yes"} THEN s ELSE ModeInvalid

dnssec_mode_from_string(s) ==
    IF s \in {"no", "allow-downgrade", "yes"} THEN s ELSE ModeInvalid

isempty(s) == s = ""

link_set_dns_over_tls_mode(l, mode) == [l EXCEPT !.dns_over_tls_mode = mode]

link_set_dnssec_mode(l, mode) == [l EXCEPT !.dnssec_mode = mode]

\* link_flush_settings(): the settings of a link nobody has configured.
link_flush_settings(l) ==
    [l EXCEPT !.default_route = -1,
              !.llmnr_support = "yes",
              !.mdns_support = "no",
              !.dnssec_mode = ModeInvalid,
              !.dns_over_tls_mode = ModeInvalid,
              !.dnssec_negative_trust_anchors = {},
              !.dns_servers = <<>>,
              !.current_dns_server = NoServer,
              !.search_domains = <<>>]

bus_link_method_set_default_route(l, message, auth, fail) ==
    IF verify_unmanaged_link(l) # "0"
    THEN Return(l, verify_unmanaged_link(l), <<>>)
    ELSE IF message.kind # "ok" THEN Return(l, ParseError, <<"read">>)
    ELSE IF polkit_branch(auth) # "proceed"
    THEN Return(l, polkit_return(auth), <<"read", "polkit">>)
    ELSE IF l.default_route # message.b
    THEN Return([l EXCEPT !.default_route = message.b], Replied,
                <<"read", "polkit", "link_save_user", "manager_write_resolv_conf",
                  "sd_bus_reply_method_return">>)
    ELSE Return(l, Replied, <<"read", "polkit", "sd_bus_reply_method_return">>)

\* SetLLMNR without the case of the empty string.
set_llmnr_mode_no_default(llmnr) == resolve_support_from_string(llmnr)

\* The mode SetLLMNR takes from its argument; ModeInvalid when it takes none.
set_llmnr_mode(llmnr) ==
    IF isempty(llmnr) THEN "yes" ELSE resolve_support_from_string(llmnr)

set_llmnr_effects ==
    <<"link_allocate_scopes", "link_add_rrs", "link_save_user",
      "sd_bus_reply_method_return">>

bus_link_method_set_llmnr(l, message, auth, fail) ==
    IF verify_unmanaged_link(l) # "0"
    THEN Return(l, verify_unmanaged_link(l), <<>>)
    ELSE IF message.kind # "ok" THEN Return(l, ParseError, <<"read">>)
    ELSE IF set_llmnr_mode(message.s) = ModeInvalid
    THEN Return(l, InvalidArgs, <<"read">>)
    ELSE IF polkit_branch(auth) # "proceed"
    THEN Return(l, polkit_return(auth), <<"read", "polkit">>)
    ELSE Return([l EXCEPT !.llmnr_support = set_llmnr_mode(message.s)], Replied,
                <<"read", "polkit">> \o set_llmnr_effects)

set_mdns_mode(mdns) ==
    IF isempty(mdns) THEN "no" ELSE resolve_support_from_string(mdns)

set_mdns_effects ==
    <<"link_allocate_scopes", "link_add_rrs", "link_save_user",
      "sd_bus_reply_method_return">>

bus_link_method_set_mdns(l, message, auth, fail) ==
    IF verify_unmanaged_link(l) # "0"
    THEN Return(l, verify_unmanaged_link(l), <<>>)
    ELSE IF message.kind # "ok" THEN Return(l, ParseError, <<"read">>)
    ELSE IF set_mdns_mode(message.s) = ModeInvalid
    THEN Return(l, InvalidArgs, <<"read">>)
    ELSE IF polkit_branch(auth) # "proceed"
    THEN Return(l, polkit_return(auth), <<"read", "polkit">>)
    ELSE Return([l EXCEPT !.mdns_support = set_mdns_mode(message.s)], Replied,
                <<"read", "polkit">> \o set_mdns_effects)

\* What SetDNSOverTLS makes of its argument: the mode to set, or that the
\* argument is no mode.
set_dns_over_tls_mode(dns_over_tls) ==
    IF isempty(dns_over_tls) THEN [ok |-> TRUE, mode |-> ModeInvalid]
    ELSE [ok |-> dns_over_tls_mode_from_string(dns_over_tls) # ModeInvalid,
          mode |-> dns_over_tls_mode_from_string(dns_over_tls)]

set_dns_over_tls_effects ==
    <<"link_set_dns_over_tls_mode", "link_save_user", "sd_bus_reply_method_return">>

bus_link_method_set_dns_over_tls(l, message, auth, fail) ==
    IF verify_unmanaged_link(l) # "0"
    THEN Return(l, verify_unmanaged_link(l), <<>>)
    ELSE IF message.kind # "ok" THEN Return(l, ParseError, <<"read">>)
    ELSE IF ~set_dns_over_tls_mode(message.s).ok
    THEN Return(l, InvalidArgs, <<"read">>)
    ELSE IF polkit_branch(auth) # "proceed"
    THEN Return(l, polkit_return(auth), <<"read", "polkit">>)
    ELSE Return(link_set_dns_over_tls_mode(l, set_dns_over_tls_mode(message.s).mode),
                Replied, <<"read", "polkit">> \o set_dns_over_tls_effects)

set_dnssec_mode(dnssec) ==
    IF isempty(dnssec) THEN [ok |-> TRUE, mode |-> ModeInvalid]
    ELSE [ok |-> dnssec_mode_from_string(dnssec) # ModeInvalid,
          mode |-> dnssec_mode_from_string(dnssec)]

set_dnssec_effects ==
    <<"link_set_dnssec_mode", "link_save_user", "sd_bus_reply_method_return">>

\* A handler that asks polkit before it looks at the mode.
bus_link_method_set_dnssec_gate_first(l, message, auth, fail) ==
    IF verify_unmanaged_link(l) # "0"
    THEN Return(l, verify_unmanaged_link(l), <<>>)
    ELSE IF message.kind # "ok" THEN Return(l, ParseError, <<"read">>)
    ELSE IF polkit_branch(auth) # "proceed"
    THEN Return(l, polkit_return(auth), <<"read", "polkit">>)
    ELSE IF ~set_dnssec_mode(message.s).ok
    THEN Return(l, InvalidArgs, <<"read", "polkit">>)
    ELSE Return(link_set_dnssec_mode(l, set_dnssec_mode(message.s).mode),
                Replied, <<"read", "polkit">> \o set_dnssec_effects)

bus_link_method_set_dnssec(l, message, auth, fail) ==
    IF verify_unmanaged_link(l) # "0"
    THEN Return(l, verify_unmanaged_link(l), <<>>)
    ELSE IF message.kind # "ok" THEN Return(l, ParseError, <<"read">>)
    ELSE IF ~set_dnssec_mode(message.s).ok
    THEN Return(l, InvalidArgs, <<"read">>)
    ELSE IF polkit_branch(auth) # "proceed"
    THEN Return(l, polkit_return(auth), <<"read", "polkit">>)
    ELSE Return(link_set_dnssec_mode(l, set_dnssec_mode(message.s).mode),
                Replied, <<"read", "polkit">> \o set_dnssec_effects)

\* The loop of SetDNSSECNegativeTrustAnchors over the names from the i-th
\* on: the set built from them, or the error of the first invalid name.
RECURSIVE set_ntas_collect(_, _, _)
set_ntas_collect(ntas, i, ns) ==
    IF i > Len(ntas) THEN [r |-> "0", ns |-> ns]
    ELSE IF ~dns_name_is_valid(ntas[i]) THEN [r |-> InvalidArgs, ns |-> ns]
    ELSE set_ntas_collect(ntas, i + 1, ns \cup {ntas[i]})

\* A handler that adds the names to the set the link has.
bus_link_method_set_dnssec_negative_trust_anchors_merging(l, message, auth, fail) ==
    IF verify_unmanaged_link(l) # "0"
    THEN Return(l, verify_unmanaged_link(l), <<>>)
    ELSE IF message.kind # "ok" THEN Return(l, ParseError, <<"read">>)
    ELSE LET c == set_ntas_collect(message.items, 1, l.dnssec_negative_trust_anchors) IN
    IF c.r # "0" THEN Return(l, c.r, <<"read">>)
    ELSE IF polkit_branch(auth) # "proceed"
    THEN Return(l, polkit_return(auth), <<"read", "polkit">>)
    ELSE Return([l EXCEPT !.dnssec_negative_trust_anchors = c.ns], Replied,
                <<"read", "polkit", "link_save_user", "sd_bus_reply_method_return">>)

bus_link_method_set_dnssec_negative_trust_anchors(l, message, auth, fail) ==
    IF verify_unmanaged_link(l) # "0"
    THEN Return(l, verify_unmanaged_link(l), <<>>)
    ELSE IF message.kind # "ok" THEN Return(l, ParseError, <<"read">>)
    ELSE LET c == set_ntas_collect(message.items, 1, {}) IN
    IF c.r # "0" THEN Return(l, c.r, <<"read">>)
    ELSE IF polkit_branch(auth) # "proceed"
    THEN Return(l, polkit_return(auth), <<"read", "polkit">>)
    ELSE Return([l EXCEPT !.dnssec_negative_trust_anchors = c.ns], Replied,
                <<"read", "polkit", "link_save_user", "sd_bus_reply_method_return">>)

revert_effects ==
    <<"link_flush_settings", "link_allocate_scopes", "link_add_rrs",
      "link_save_user", "manager_write_resolv_conf", "manager_send_changed",
      "sd_bus_reply_method_return">>

\* A Revert that recomputes and replies without having flushed.
bus_link_method_revert_no_flush(l, message, auth, fail) ==
    IF verify_unmanaged_link(l) # "0"
    THEN Return(l, verify_unmanaged_link(l), <<>>)
    ELSE IF polkit_branch(auth) # "proceed"
    THEN Return(l, polkit_return(auth), <<"polkit">>)
    ELSE Return(l, Replied, <<"polkit">> \o revert_effects)

bus_link_method_revert(l, message, auth, fail) ==
    IF verify_unmanaged_link(l) # "0"
    THEN Return(l, verify_unmanaged_link(l), <<>>)
    ELSE IF polkit_branch(auth) # "proceed"
    THEN Return(l, polkit_return(auth), <<"polkit">>)
    ELSE Return(link_flush_settings(l), Replied, <<"polkit">> \o revert_effects)

(***************************************************************************)
(* Requests.                                                               *)
(***************************************************************************)
\* A body the decoder cannot read at all.
Unparsable(method) == [method |-> method, kind |-> "unparsable"]

\* An array body, of at most MaxBatch elements.
Arrays(method, Items) ==
    { [method |-> method, kind |-> "ok", items |-> b] :
        b \in SeqUpTo(Items, MaxBatch) }

SetDNSMessages ==
    Arrays("SetDNS", DnsAddresses)
        \cup {Unparsable("SetDNS"), [method |-> "SetDNS", kind |-> "invalid"]}

SetDNSExMessages ==
    Arrays("SetDNSEx", DnsExItems)
        \cup {Unparsable("SetDNSEx"), [method |-> "SetDNSEx", kind |-> "invalid"]}

SetDomainsMessages ==
    Arrays("SetDomains", DomainItems \cup BadDomainItems)
        \cup {Unparsable("SetDomains")}

SetDefaultRouteMessages ==
    { [method |-> "SetDefaultRoute", kind |-> "ok", b |-> b] : b \in {0, 1} }
        \cup {Unparsable("SetDefaultRoute")}

Strings(method) ==
    { [method |-> method, kind |-> "ok", s |-> s] : s \in ModeStrings }
        \cup {Unparsable(method)}

SetNTAMessages ==
    Arrays("SetDNSSECNegativeTrustAnchors", NtaNames \cup BadNtaNames)
        \cup {Unparsable("SetDNSSECNegativeTrustAnchors")}

RevertMessage == [method |-> "Revert", kind |-> "ok"]

(***************************************************************************)
(* Dispatch: link_object_find() and the method table.                      *)
(***************************************************************************)
link_vtable(l, message, auth, fail) ==
    CASE message.method = "SetDNS" ->
            bus_link_method_set_dns_servers(l, message, auth, fail)
      [] message.method = "SetDNSEx" ->
            bus_link_method_set_dns_servers_ex(l, message, auth, fail)
      [] message.method = "SetDomains" ->
            bus_link_method_set_domains(l, message, auth, fail)
      [] message.method = "SetDefaultRoute" ->
            bus_link_method_set_default_route(l, message, auth, fail)
      [] message.method = "SetLLMNR" ->
            bus_link_method_set_llmnr(l, message, auth, fail)
      [] message.method = "SetMulticastDNS" ->
            bus_link_method_set_mdns(l, message, auth, fail)
      [] message.method = "SetDNSOverTLS" ->
            bus_link_method_set_dns_over_tls(l, message, auth, fail)
      [] message.method = "SetDNSSEC" ->
            bus_link_method_set_dnssec(l, message, auth, fail)
      [] message.method = "SetDNSSECNegativeTrustAnchors" ->
            bus_link_method_set_dnssec_negative_trust_anchors(l, message, auth, fail)
      [] message.method = "Revert" ->
            bus_link_method_revert(l, message, auth, fail)

\* A lookup that finds a link for every path.
link_object_find_any(exists) == TRUE

\* Whether the path names a link of m->links.
link_object_find(exists) == exists

\* The failures that can hit a granted request: of the reconciliation of a
\* list, or of a side effect.
Failures(message, auth) ==
    IF auth # "Granted" \/ message.kind # "ok" THEN {NoFail}
    ELSE {NoFail} \cup { [at |-> 0, what |-> e] : e \in SideEffects } \cup
         IF message.method \in {"SetDNS", "SetDNSEx"}
         THEN { [at |-> i, what |-> "new"] : i \in 1..Len(message.items) }
         ELSE IF message.method = "SetDomains"
         THEN { [at |-> i, what |-> w] :
                  i \in 1..Len(message.items), w \in {"read", "find", "new"} }
                \cup { [at |-> Len(message.items) + 1, what |-> "read"] }
         ELSE {}

\* The record of a handler invocation: the request, polkit's answer ("none"
\* when it was not asked), the injected failure, the link before (pre) and
\* as the handler left it (post), the return value and the calls made.
\* again: the invocation before this one was of the same request and was
\* replied to. decision: what polkit decided, when the invocation is the
\* one that follows its decision. returned: the handler has returned and
\* the dispatcher has not yet gone back to waiting. received: the link as it
\* was when the call that polkit left pending was received, from then until
\* the dispatcher is done with that call.
NoCall ==
    [message |-> NoMessage, auth |-> "none", fail |-> NoFail, pre |-> <<>>,
     post |-> <<>>, r |-> "none", calls |-> <<>>, again |-> FALSE,
     decision |-> "none", returned |-> FALSE, received |-> <<>>]

\* Addresses mean nothing beyond telling entries apart: between two calls
\* the entries of a list are renamed 1, 2, ... in list order, and
\* current_dns_server with them.
Renamed(list) == [i \in DOMAIN list |-> [list[i] EXCEPT !.id = i]]

Compact(l) ==
    [l EXCEPT !.dns_servers = Renamed(@),
              !.search_domains = Renamed(@),
              !.current_dns_server =
                  IF @ = NoServer THEN NoServer
                  ELSE CHOOSE i \in DOMAIN l.dns_servers : l.dns_servers[i].id = @]

\* Whether the handler gets to ask polkit, and the answers it can get.
AsksPolkit(l, message) ==
    "polkit" \in Range(link_vtable(l, message, "Pending", NoFail).calls)

Answers(l, message, answers) == IF AsksPolkit(l, message) THEN answers ELSE {"none"}

\* What stays of an invocation once the dispatcher waits again: the request,
\* if it was replied to; the request and the link before and after it, if
\* the call is suspended until polkit decides.
Settled(call) ==
    IF call.r = Replied
    THEN [NoCall EXCEPT !.message = call.message, !.r = call.r]
    ELSE IF call.r = PolkitPending
    THEN [NoCall EXCEPT !.message = call.message, !.r = call.r,
                        !.pre = call.pre, !.post = call.post]
    ELSE NoCall

\* The state file is not followed.
NotFollowed == [followed |-> FALSE]

\* link_save_user(): what the state file of the link holds of its lists
\* once it is written, the servers and the domains in list order.
link_save_user(l) ==
    [followed |-> TRUE,
     dns_servers |-> [i \in DOMAIN l.dns_servers |->
                        [family |-> l.dns_servers[i].family,
                         address |-> l.dns_servers[i].address,
                         port |-> l.dns_servers[i].port,
                         server_name |-> l.dns_servers[i].server_name]],
     search_domains |-> [i \in DOMAIN l.search_domains |->
                           [name |-> l.search_domains[i].name,
                            route_only |-> l.search_domains[i].route_only]]]

\* The dispatcher looks the object up and runs the handler on the link l; a
\* link_save_user() that the handler calls and that does not fail writes the
\* state file.
HandledOn(l, message, auth, fail, decision) ==
    IF link_object_find(link_exists)
    THEN LET out == link_vtable(l, message, auth, fail) IN
         /\ link' = Compact(out.l)
         /\ last' = [message |-> message, auth |-> auth, fail |-> fail,
                     pre |-> link, post |-> out.l, r |-> out.r,
                     calls |-> out.calls,
                     again |-> (last.message = message /\ last.r = Replied),
                     decision |-> decision, returned |-> TRUE,
                     received |-> IF out.r = PolkitPending THEN l
                                  ELSE last.received]
         /\ saved' = IF /\ saved.followed
                        /\ "link_save_user" \in Range(out.calls)
                        /\ fail.what # "link_save_user"
                     THEN link_save_user(out.l)
                     ELSE saved
    ELSE /\ last' = [NoCall EXCEPT !.message = message, !.r = UnknownObject,
                                   !.pre = link, !.post = link,
                                   !.decision = decision, !.returned = TRUE,
                                   !.received = last.received]
         /\ UNCHANGED <<link, saved>>

\* A dispatcher that runs a call polkit has decided on the link as it was
\* when the call was received.
HandledOnReceived(message, auth, fail, decision) ==
    HandledOn(IF decision # "none" /\ last.received # <<>>
              THEN last.received ELSE link,
              message, auth, fail, decision)

\* The handler runs on the link as it is now.
Handled(message, auth, fail, decision) ==
    HandledOn(link, message, auth, fail, decision)

Invoke(message, auth, fail, decision) ==
    /\ Handled(message, auth, fail, decision)
    /\ pending' = IF /\ link_object_find(link_exists)
                     /\ link_vtable(link, message, auth, fail).r = PolkitPending
                  THEN message ELSE NoMessage

\* The settings a method writes, and whether a link has them as nobody set
\* them.
Family(method) ==
    CASE method \in {"SetDNS", "SetDNSEx"} -> {"dns_servers", "current_dns_server"}
      [] method = "SetDomains" -> {"search_domains"}
      [] method = "SetDefaultRoute" -> {"default_route"}
      [] method = "SetLLMNR" -> {"llmnr_support"}
      [] method = "SetMulticastDNS" -> {"mdns_support"}
      [] method = "SetDNSOverTLS" -> {"dns_over_tls_mode"}
      [] method = "SetDNSSEC" -> {"dnssec_mode"}
      [] method = "SetDNSSECNegativeTrustAnchors" -> {"dnssec_negative_trust_anchors"}
      [] method = "Revert" ->
            {"dns_servers", "current_dns_server", "search_domains",
             "default_route", "llmnr_support", "mdns_support",
             "dns_over_tls_mode", "dnssec_mode", "dnssec_negative_trust_anchors"}

Settings == Family("Revert")

\* The model follows a link on which the settings of one method family at
\* a time differ from the defaults (Revert brings it back to none).
OneFamily(l, method) ==
    \A f \in Settings \ Family(method) : l[f] = link_flush_settings(l)[f]

\* A method call arrives from a bus client, while no call is suspended.
MethodCall(message) ==
    /\ ~last.returned
    /\ pending = NoMessage
    /\ OneFamily(link, message.method)
    /\ \E auth \in Answers(link, message, AuthorizationOutcome) :
         \E fail \in Failures(message, auth) : Invoke(message, auth, fail, "none")
    /\ UNCHANGED <<link_exists, udevadm>>

SetDNS == \E message \in SetDNSMessages : MethodCall(message)

SetDNSEx == \E message \in SetDNSExMessages : MethodCall(message)

SetDomains == \E message \in SetDomainsMessages : MethodCall(message)

SetDefaultRoute == \E message \in SetDefaultRouteMessages : MethodCall(message)

SetLLMNR == \E message \in Strings("SetLLMNR") : MethodCall(message)

SetMulticastDNS == \E message \in Strings("SetMulticastDNS") : MethodCall(message)

SetDNSOverTLS == \E message \in Strings("SetDNSOverTLS") : MethodCall(message)

SetDNSSEC == \E message \in Strings("SetDNSSEC") : MethodCall(message)

SetDNSSECNegativeTrustAnchors == \E message \in SetNTAMessages : MethodCall(message)

Revert == MethodCall(RevertMessage)

\* polkit has decided: the dispatcher runs the suspended call again, from
\* the object lookup on.
PolkitCallback ==
    /\ ~last.returned
    /\ pending # NoMessage
    /\ \E decision \in {"Granted", "Denied"} :
         \E auth \in Answers(link, pending, {decision}) :
           \E fail \in Failures(pending, auth) :
             Invoke(pending, auth, fail, decision)
    /\ UNCHANGED <<link_exists, udevadm>>

\* The handler has returned: the dispatcher is done with the message and
\* waits for the next event.
MessageProcessed ==
    /\ last.returned
    /\ last' = IF pending # NoMessage
               THEN [Settled(last) EXCEPT !.received = last.received]
               ELSE Settled(last)
    /\ UNCHANGED <<link_exists, link, pending, udevadm, saved>>

(***************************************************************************)
(* The rest of the service.                                                *)
(***************************************************************************)
\* networkd takes over the link, or lets it go (link_update()).
LinkManagedChanges ==
    /\ ~last.returned
    /\ link_exists
    /\ link' = [link EXCEPT !.is_managed = ~@]
    /\ UNCHANGED <<link_exists, pending, last, udevadm, saved>>

\* The kernel reports other interface flags (link_process_rtnl()).
LinkFlagsChange ==
    /\ ~last.returned
    /\ link_exists
    /\ link' = [link EXCEPT !.flags_loopback = ~@]
    /\ UNCHANGED <<link_exists, pending, last, udevadm, saved>>

\* The interface goes away (link_free()).
LinkRemoved ==
    /\ ~last.returned
    /\ link_exists
    /\ link_exists' = FALSE
    /\ link' = link_flush_settings(link)
    /\ UNCHANGED <<pending, last, udevadm, saved>>

\* The resolver picks the server it talks to (link_set_dns_server()).
SelectDnsServer ==
    /\ ~last.returned
    /\ link_exists
    /\ \E i \in DOMAIN link.dns_servers :
        /\ link.current_dns_server # link.dns_servers[i].id
        /\ link' = [link EXCEPT !.current_dns_server = link.dns_servers[i].id]
    /\ UNCHANGED <<link_exists, pending, last, udevadm, saved>>

\* No udevadm is run.
NoRun == [tool |-> "none"]

\* link_new(): a link with the settings of link_flush_settings().
link_new(loopback, managed) ==
    link_flush_settings(
        [flags_loopback |-> loopback, is_managed |-> managed,
         dns_servers |-> <<>>, current_dns_server |-> NoServer,
         search_domains |-> <<>>, default_route |-> -1,
         llmnr_support |-> "yes", mdns_support |-> "no",
         dns_over_tls_mode |-> ModeInvalid, dnssec_mode |-> ModeInvalid,
         dnssec_negative_trust_anchors |-> {}])

Init ==
    /\ link_exists = TRUE
    /\ \E loopback \in BOOLEAN, managed \in BOOLEAN : link = link_new(loopback, managed)
    /\ pending = NoMessage
    /\ last = NoCall
    /\ udevadm = NoRun
    /\ saved = NotFollowed

Next ==
    \/ SetDNS
    \/ SetDNSEx
    \/ SetDomains
    \/ SetDefaultRoute
    \/ SetLLMNR
    \/ SetMulticastDNS
    \/ SetDNSOverTLS
    \/ SetDNSSEC
    \/ SetDNSSECNegativeTrustAnchors
    \/ Revert
    \/ PolkitCallback
    \/ MessageProcessed
    \/ LinkManagedChanges
    \/ LinkFlagsChange
    \/ LinkRemoved
    \/ SelectDnsServer

Spec == Init /\ [][Next]_vars

(***************************************************************************)
(* The replace-set handlers alone, on an eligible link, with polkit        *)
(* granting every call and requests of up to MaxCandidates elements, in    *)
(* which a key can come again after another one.                           *)
(***************************************************************************)
MaxCandidates == 3

LongRequests(method, Items) ==
    { [method |-> method, kind |-> "ok", items |-> b] :
        b \in SeqUpTo(Items, MaxCandidates) }

GrantedCall(message) ==
    /\ ~last.returned
    /\ pending = NoMessage
    /\ OneFamily(link, message.method)
    /\ Invoke(message, "Granted", NoFail, "none")
    /\ UNCHANGED <<link_exists, udevadm>>

GrantedSetDNSEx == \E message \in LongRequests("SetDNSEx", DnsExItems) : GrantedCall(message)

GrantedSetDomains == \E message \in LongRequests("SetDomains", DomainItems) : GrantedCall(message)

ReplaceInit ==
    /\ link_exists = TRUE
    /\ link = link_new(FALSE, FALSE)
    /\ pending = NoMessage
    /\ last = NoCall
    /\ udevadm = NoRun
    /\ saved = NotFollowed

ReplaceNext ==
    \/ GrantedSetDNSEx
    \/ GrantedSetDomains
    \/ MessageProcessed

ReplaceSpec == ReplaceInit /\ [][ReplaceNext]_vars

(***************************************************************************)
(* The list setters with calls that arrive while another call waits for    *)
(* polkit. One call at a time is suspended: polkit decides at once on a    *)
(* call that arrives meanwhile.                                            *)
(***************************************************************************)
CallWhilePending(message) ==
    /\ ~last.returned
    /\ pending # NoMessage
    /\ OneFamily(link, message.method)
    /\ \E auth \in Answers(link, message, {"Granted", "Denied"}) :
         Handled(message, auth, NoFail, "none")
    /\ UNCHANGED <<link_exists, pending, udevadm>>

SetDNSWhilePending == \E message \in SetDNSMessages : CallWhilePending(message)

InterleaveNext ==
    \/ SetDNSEx
    \/ SetDNSWhilePending
    \/ PolkitCallback
    \/ MessageProcessed

InterleaveSpec == ReplaceInit /\ [][InterleaveNext]_vars

(***************************************************************************)
(* The list setters and Revert on an eligible link, with polkit granting   *)
(* every call, the failures of the reconciliation and of the side effects, *)
(* and the state file that link_save_user() writes followed in saved.      *)
(***************************************************************************)
GrantedCallFailing(message) ==
    /\ ~last.returned
    /\ pending = NoMessage
    /\ OneFamily(link, message.method)
    /\ \E fail \in Failures(message, "Granted") :
         Invoke(message, "Granted", fail, "none")
    /\ UNCHANGED <<link_exists, udevadm>>

SaveInit ==
    /\ link_exists = TRUE
    /\ link = link_new(FALSE, FALSE)
    /\ pending = NoMessage
    /\ last = NoCall
    /\ udevadm = NoRun
    /\ saved = link_save_user(link)

\* SetDNS, SetDomains with two of the names, Revert.
SaveNext ==
    \/ \E message \in SetDNSMessages : GrantedCallFailing(message)
    \/ \E message \in Arrays("SetDomains", { d \in DomainItems : ~d.route_only }) :
         GrantedCallFailing(message)
    \/ GrantedCallFailing(RevertMessage)
    \/ MessageProcessed

SaveSpec == SaveInit /\ [][SaveNext]_vars

(***************************************************************************)
(* udevadm info: the command line (info_main()).                           *)
(***************************************************************************)
\* Most options and most positional arguments of a command line.
MaxOptions == 3
MaxDevices == 2

EINVAL == "-EINVAL"
ENODEV == "-ENODEV"

\* The options as getopt_long() hands them over, in the order of the command
\* line: c is the option, optarg its argument.
InfoOptions ==
    { [c |-> "a"], [c |-> "c"], [c |-> "e"], [c |-> "x"], [c |-> "value"],
      [c |-> "P", optarg |-> "UDEV_"],
      [c |-> "d", optarg |-> "/etc/fstab"],
      [c |-> "n", optarg |-> "sda"],
      [c |-> "q", optarg |-> "path"],
      [c |-> "q", optarg |-> "env"],
      [c |-> "q", optarg |-> "bogus"] }

\* Positional arguments: a device that exists and one that does not.
InfoDevices == { <<"dev", "sda">>, <<"dev", "missing">> }

\* find_device(): 0 for a device there is, -ENODEV for one there is not,
\* -EINVAL for what is no path in /dev or /sys.
find_device(id) ==
    IF Len(id) < 2 \/ id[1] \notin {"dev", "sys"} THEN EINVAL
    ELSE IF id[2] = "sda" THEN "0"
    ELSE ENODEV

\* What info_main() has done when it returns r: the devices it looked up
\* and what it printed.
InfoReturn(r, lookups, printed) == [r |-> r, lookups |-> lookups, printed |-> printed]

\* The files stat() finds.
Files == {"/etc/fstab"}

\* stat_device(): the device numbers of the file's filesystem, as
\* assignments when exporting.
stat_device(name, export, prefix) ==
    IF name \notin Files THEN InfoReturn("-ENOENT", <<>>, <<>>)
    ELSE IF export
    THEN InfoReturn("0", <<>>,
                    << <<IF prefix = NULL THEN "INFO_" ELSE prefix, "MAJOR=">>,
                       <<IF prefix = NULL THEN "INFO_" ELSE prefix, "MINOR=">> >>)
    ELSE InfoReturn("0", <<>>, << <<"major:minor">> >>)

\* The locals and the arg_ variables when info_main() starts.
InfoStart ==
    [action |-> "ACTION_QUERY", query |-> "QUERY_ALL", arg_export |-> FALSE,
     arg_export_prefix |-> NULL, arg_value |-> FALSE, devices |-> <<>>,
     name |-> NULL]

\* A 'q' that takes what it does not know for "all".
query_type_lenient(optarg) ==
    CASE optarg \in {"property", "env"} -> "QUERY_PROPERTY"
      [] optarg = "name" -> "QUERY_NAME"
      [] optarg = "symlink" -> "QUERY_SYMLINK"
      [] optarg = "path" -> "QUERY_PATH"
      [] OTHER -> "QUERY_ALL"

\* case 'q': the query type of optarg, NULL for none.
query_type(optarg) ==
    CASE optarg \in {"property", "env"} -> "QUERY_PROPERTY"
      [] optarg = "name" -> "QUERY_NAME"
      [] optarg = "symlink" -> "QUERY_SYMLINK"
      [] optarg = "path" -> "QUERY_PATH"
      [] optarg = "all" -> "QUERY_ALL"
      [] OTHER -> NULL

\* A loop in which 'q' sets the query type and leaves the action.
info_option_q_keeps_action(st, o) ==
    CASE o.c = "value" -> [returns |-> FALSE, st |-> [st EXCEPT !.arg_value = TRUE]]
      [] o.c = "n" ->
            [returns |-> FALSE,
             st |-> [st EXCEPT !.devices = Append(@, <<"dev", o.optarg>>)]]
      [] o.c = "q" ->
            IF query_type(o.optarg) = NULL
            THEN [returns |-> TRUE, out |-> InfoReturn(EINVAL, <<>>, <<>>)]
            ELSE [returns |-> FALSE,
                  st |-> [st EXCEPT !.query = query_type(o.optarg)]]
      [] o.c = "d" ->
            [returns |-> FALSE,
             st |-> [st EXCEPT !.action = "ACTION_DEVICE_ID_FILE",
                               !.name = o.optarg]]
      [] o.c = "a" ->
            [returns |-> FALSE, st |-> [st EXCEPT !.action = "ACTION_ATTRIBUTE_WALK"]]
      [] o.c = "e" ->
            [returns |-> TRUE, out |-> InfoReturn("0", <<>>, << <<"export_devices">> >>)]
      [] o.c = "c" ->
            [returns |-> TRUE, out |-> InfoReturn("0", <<>>, <<>>)]
      [] o.c = "x" -> [returns |-> FALSE, st |-> [st EXCEPT !.arg_export = TRUE]]
      [] o.c = "P" ->
            [returns |-> FALSE,
             st |-> [st EXCEPT !.arg_export = TRUE, !.arg_export_prefix = o.optarg]]

\* One round of the getopt_long() loop: the variables after the option, or
\* the return it makes (returns).
info_option(st, o) ==
    CASE o.c = "value" -> [returns |-> FALSE, st |-> [st EXCEPT !.arg_value = TRUE]]
      [] o.c = "n" ->
            [returns |-> FALSE,
             st |-> [st EXCEPT !.devices = Append(@, <<"dev", o.optarg>>)]]
      [] o.c = "q" ->
            IF query_type(o.optarg) = NULL
            THEN [returns |-> TRUE, out |-> InfoReturn(EINVAL, <<>>, <<>>)]
            ELSE [returns |-> FALSE,
                  st |-> [st EXCEPT !.action = "ACTION_QUERY",
                                    !.query = query_type(o.optarg)]]
      [] o.c = "d" ->
            [returns |-> FALSE,
             st |-> [st EXCEPT !.action = "ACTION_DEVICE_ID_FILE",
                               !.name = o.optarg]]
      [] o.c = "a" ->
            [returns |-> FALSE, st |-> [st EXCEPT !.action = "ACTION_ATTRIBUTE_WALK"]]
      [] o.c = "e" ->
            [returns |-> TRUE, out |-> InfoReturn("0", <<>>, << <<"export_devices">> >>)]
      [] o.c = "c" ->
            [returns |-> TRUE, out |-> InfoReturn("0", <<>>, <<>>)]
      [] o.c = "x" -> [returns |-> FALSE, st |-> [st EXCEPT !.arg_export = TRUE]]
      [] o.c = "P" ->
            [returns |-> FALSE,
             st |-> [st EXCEPT !.arg_export = TRUE, !.arg_export_prefix = o.optarg]]

\* The getopt_long() loop from the i-th option on.
RECURSIVE info_getopt(_, _, _)
info_getopt(st, options, i) ==
    IF i > Len(options) THEN [returns |-> FALSE, st |-> st]
    ELSE LET round == info_option(st, options[i])
         IN  IF round.returns THEN round
             ELSE info_getopt(round.st, options, i + 1)

\* The loop over the devices from the i-th on.
RECURSIVE info_devices(_, _, _, _, _)
info_devices(st, devices, i, lookups, printed) ==
    IF i > Len(devices) THEN InfoReturn("0", lookups, printed)
    ELSE IF find_device(devices[i]) # "0"
    THEN InfoReturn(find_device(devices[i]), Append(lookups, devices[i]), printed)
    ELSE info_devices(st, devices, i + 1, Append(lookups, devices[i]),
                      Append(printed,
                             IF st.action = "ACTION_QUERY"
                             THEN <<"query_device", st.query, devices[i]>>
                             ELSE <<"print_device_chain", devices[i]>>))

\* info_main() on the options and the positional arguments (argv + optind)
\* of a command line.
info_main(options, positional) ==
    LET parsed == info_getopt(InfoStart, options, 1) IN
    IF parsed.returns THEN parsed.out
    ELSE LET st == parsed.st
             devices == st.devices \o positional IN
    IF st.action = "ACTION_DEVICE_ID_FILE"
    THEN IF positional # <<>> THEN InfoReturn(EINVAL, <<>>, <<>>)
         ELSE stat_device(st.name, st.arg_export, st.arg_export_prefix)
    ELSE IF devices = <<>> THEN InfoReturn(EINVAL, <<>>, <<>>)
    ELSE IF st.action = "ACTION_ATTRIBUTE_WALK" /\ Len(devices) > 1
    THEN InfoReturn(EINVAL, <<>>, <<>>)
    ELSE IF st.arg_export /\ st.arg_value THEN InfoReturn(EINVAL, <<>>, <<>>)
    ELSE info_devices(st, devices, 1, <<>>, <<>>)

\* A command line is given ...
InfoInit ==
    /\ link_exists = FALSE
    /\ link = link_new(FALSE, FALSE)
    /\ pending = NoMessage
    /\ last = NoCall
    /\ saved = NotFollowed
    /\ \E options \in SeqUpTo(InfoOptions, MaxOptions),
          positional \in SeqUpTo(InfoDevices, MaxDevices) :
         udevadm = [tool |-> "info", options |-> options,
                    positional |-> positional, returned |-> FALSE]

\* ... and info_main() runs on it.
InfoMain ==
    /\ udevadm.tool = "info" /\ ~udevadm.returned
    /\ udevadm' = [udevadm EXCEPT !.returned = TRUE] @@
                  [out |-> info_main(udevadm.options, udevadm.positional)]
    /\ UNCHANGED <<link_exists, link, pending, last, saved>>

InfoNext == InfoMain

InfoSpec == InfoInit /\ [][InfoNext]_vars

(***************************************************************************)
(* udevadm info --attribute-walk: the attribute table of one device        *)
(* (print_all_attributes). Names and values are C strings, modelled as     *)
(* sequences of bytes so that strcmp() and isprint() are computed.         *)
(***************************************************************************)
MaxAttrs == 3

\* "alpha", "zeta", "uevent", "dev", "device", "modalias", "resource",
\* "driver", "subsystem", "module" and "(write-only)" as bytes.
alpha == <<97, 108, 112, 104, 97>>
zeta == <<122, 101, 116, 97>>
uevent == <<117, 101, 118, 101, 110, 116>>
dev == <<100, 101, 118>>
device == <<100, 101, 118, 105, 99, 101>>
modalias == <<109, 111, 100, 97, 108, 105, 97, 115>>
resource == <<114, 101, 115, 111, 117, 114, 99, 101>>
driver == <<100, 114, 105, 118, 101, 114>>
subsystem == <<115, 117, 98, 115, 121, 115, 116, 101, 109>>
module == <<109, 111, 100, 117, 108, 101>>
write_only == <<40, 119, 114, 105, 116, 101, 45, 111, 110, 108, 121, 41>>

\* The attribute names a device of the model may have.
SysattrNames == {alpha, zeta, uevent, dev, device}

\* What sd_device_get_sysattr_value() gives for an attribute: its value
\* ("1", "", "/x", a value with a byte that is not printable) or an error.
EPERM == "-EPERM"
EACCES == "-EACCES"
ENOENT == "-ENOENT"
SysattrReads ==
    { [r |-> "0", value |-> v] : v \in {<<49>>, <<>>, <<47, 120>>, <<7, 49>>} }
    \cup { [r |-> e, value |-> NULL] : e \in {EPERM, EACCES, ENOENT} }

\* The attribute names of a device in the order in which
\* FOREACH_DEVICE_SYSATTR yields them, each name once.
SysattrOrders ==
    { s \in SeqUpTo(SysattrNames, MaxAttrs) :
        \A i, j \in DOMAIN s : s[i] = s[j] => i = j }

skip_attribute(name) ==
    name \in {uevent, dev, modalias, resource, driver, subsystem, module}

RECURSIVE strcmp(_, _)
strcmp(a, b) ==
    IF a = <<>> /\ b = <<>> THEN 0
    ELSE IF a = <<>> THEN 0 - b[1]
    ELSE IF b = <<>> THEN a[1]
    ELSE IF a[1] # b[1] THEN a[1] - b[1]
    ELSE strcmp(Tail(a), Tail(b))

sysattr_compare(a, b) == strcmp(a.name, b.name)

isprint(c) == c >= 32 /\ c <= 126

\* The length left after the trailing printable bytes are dropped.
RECURSIVE nonprintable_len(_)
nonprintable_len(value) ==
    IF Len(value) > 0 /\ isprint(value[Len(value)])
    THEN nonprintable_len(SubSeq(value, 1, Len(value) - 1))
    ELSE Len(value)

\* The order typesafe_qsort() leaves when no two items compare equal.
RECURSIVE sorted_insert(_, _)
sorted_insert(sorted, item) ==
    IF sorted = <<>> THEN <<item>>
    ELSE IF sysattr_compare(item, Head(sorted)) < 0 THEN <<item>> \o sorted
    ELSE <<Head(sorted)>> \o sorted_insert(Tail(sorted), item)

RECURSIVE typesafe_qsort_from(_, _, _)
typesafe_qsort_from(items, i, sorted) ==
    IF i > Len(items) THEN sorted
    ELSE typesafe_qsort_from(items, i + 1, sorted_insert(sorted, items[i]))

typesafe_qsort_unsorted(items) == items

typesafe_qsort(items) == typesafe_qsort_from(items, 1, <<>>)

\* The body of the FOREACH_DEVICE_SYSATTR loop for one attribute: the item
\* it appends, as a sequence: none when it continues without one.
sysattr_item(name, read) ==
    IF skip_attribute(name) THEN <<>>
    ELSE IF read.r = "0"
    THEN IF read.value # <<>> /\ read.value[1] = 47 THEN <<>>
         ELSE IF nonprintable_len(read.value) > 0 THEN <<>>
         ELSE <<[name |-> name, value |-> read.value]>>
    ELSE IF read.r = EPERM THEN <<[name |-> name, value |-> write_only]>>
    ELSE <<>>

\* The loop: oom_at is the append at which GREEDY_REALLOC() fails, 0 when
\* none does.
RECURSIVE print_all_attributes_loop(_, _, _, _)
print_all_attributes_loop(attrs, i, items, oom_at) ==
    IF i > Len(attrs) THEN [r |-> "0", items |-> items]
    ELSE LET item == sysattr_item(attrs[i][1], attrs[i][2])
         IN IF item = <<>>
            THEN print_all_attributes_loop(attrs, i + 1, items, oom_at)
            ELSE IF Len(items) + 1 = oom_at
            THEN [r |-> "-ENOMEM", items |-> items]
            ELSE print_all_attributes_loop(attrs, i + 1, items \o item, oom_at)

\* print_all_attributes(): the return value and the ATTR lines printed.
print_all_attributes(attrs, oom_at) ==
    LET loop == print_all_attributes_loop(attrs, 1, <<>>, oom_at)
    IN IF loop.r # "0" THEN [r |-> loop.r, printed |-> <<>>]
       ELSE [r |-> "0", printed |-> typesafe_qsort(loop.items)]

\* A device is given ...
WalkInit ==
    /\ link_exists = FALSE
    /\ link = link_new(FALSE, FALSE)
    /\ pending = NoMessage
    /\ last = NoCall
    /\ saved = NotFollowed
    /\ \E names \in SysattrOrders :
       \E reads \in [DOMAIN names -> SysattrReads], oom_at \in 0..Len(names) :
         udevadm = [tool |-> "walk",
                    sysattrs |-> [i \in DOMAIN names |-> <<names[i], reads[i]>>],
                    oom_at |-> oom_at, returned |-> FALSE]

\* ... and print_all_attributes() runs on it.
PrintAllAttributes ==
    /\ udevadm.tool = "walk" /\ ~udevadm.returned
    /\ udevadm' = [udevadm EXCEPT !.returned = TRUE] @@
                  [out |-> print_all_attributes(udevadm.sysattrs, udevadm.oom_at)]
    /\ UNCHANGED <<link_exists, link, pending, last, saved>>

WalkNext == PrintAllAttributes

WalkSpec == WalkInit /\ [][WalkNext]_vars

(***************************************************************************)
(* Properties. They are stated over the record of the last invocation, in  *)
(* the state in which the handler has just returned.                       *)
(***************************************************************************)
\* A handler ran and has just returned.
HandlerReturned == last.returned /\ last.r # UnknownObject

Ineligible(l) == l.flags_loopback \/ l.is_managed

Marked(list) == { i \in DOMAIN list : list[i].marked }

\* The calls of a handler other than the decoding of the body and the
\* question to polkit: the side effects and the reply.
Effects(calls) == Range(calls) \ {"read", "polkit"}

\* The handler left the link as it found it, marks included.
Untouched ==
    /\ last.post = last.pre
    /\ link = last.pre
    /\ Marked(last.post.dns_servers) = {}
    /\ Marked(last.post.search_domains) = {}

\* C1: whatever the method and whatever the body (well-formed, invalid or
\* unparsable), a call on a link that is loopback or managed returns Busy,
\* having neither read the body nor asked polkit, and leaves the link's
\* configuration as it was.
BusyComesFirst ==
    (HandlerReturned /\ Ineligible(last.pre)) =>
        /\ last.r = Busy
        /\ last.calls = <<>>
        /\ last.auth = "none"
        /\ Untouched

\* A managed link with DNS servers configured is sent a SetDNS body that
\* does not decode, and the call returns Busy.
BusyComesFirstWitness ==
    /\ HandlerReturned
    /\ last.pre.is_managed /\ ~last.pre.flags_loopback
    /\ last.message = Unparsable("SetDNS")
    /\ last.pre.dns_servers # <<>>
    /\ last.r = Busy

\* C2: a call polkit denies returns access-denied and changes nothing: the
\* lists have the entries they had, in their order, none of them marked, the
\* scalar settings and the negative trust anchors are as before, and no side
\* effect ran.
DeniedChangesNothing ==
    (last.returned /\ last.auth = "Denied") =>
        /\ last.r = AccessDenied
        /\ Untouched
        /\ Effects(last.calls) = {}

\* A denied SetDNS that would have dropped an entry of a two-entry list.
DeniedChangesNothingWitness ==
    /\ last.returned /\ last.auth = "Denied"
    /\ last.message.method = "SetDNS"
    /\ Len(last.pre.dns_servers) = 2
    /\ Len(last.message.items) = 1
    /\ Len(link.dns_servers) = 2

\* C3: when polkit's decision arrives for a suspended call and the link has
\* meanwhile become managed or loopback, the handler runs again and returns
\* Busy; when the link is gone, no handler runs. Either way nothing is
\* changed, also when the decision is Granted.
StaleCallNotApplied ==
    (last.returned /\ last.decision # "none"
        /\ (~link_exists \/ Ineligible(last.pre))) =>
        /\ last.r = IF link_exists THEN Busy ELSE UnknownObject
        /\ last.calls = <<>>
        /\ last.post = last.pre
        /\ link = last.pre
        /\ pending = NoMessage

\* polkit grants a suspended SetDNS with servers in it after the link has
\* become managed: Busy.
StaleCallNotAppliedWitness ==
    /\ last.returned /\ last.decision = "Granted"
    /\ link_exists /\ last.pre.is_managed
    /\ last.message.method = "SetDNS" /\ last.message.kind = "ok"
    /\ last.message.items # <<>>
    /\ last.r = Busy
    /\ link.dns_servers = <<>>

\* C4: when polkit answers Pending the handler returns 1 without replying,
\* with the link exactly as before the call (no entry marked, added, moved
\* or removed, no scalar changed) and no side effect run; what is kept is
\* the request.
PendingKeepsNothing ==
    (last.returned /\ last.auth = "Pending") =>
        /\ last.r = PolkitPending
        /\ Untouched
        /\ Effects(last.calls) = {}
        /\ pending = last.message

\* A suspended SetDomains that names other domains than the link has.
PendingKeepsNothingWitness ==
    /\ last.returned /\ last.auth = "Pending"
    /\ last.message.method = "SetDomains"
    /\ last.pre.search_domains # <<>>
    /\ \E i \in DOMAIN last.message.items :
         \A j \in DOMAIN last.pre.search_domains :
           last.pre.search_domains[j].name # last.message.items[i].name

\* What SetDomains must refuse: a name that is no domain name, or the root
\* domain not marked route-only.
Refused(item) ==
    \/ ~dns_name_is_valid(item.name)
    \/ dns_name_is_root(item.name) /\ ~item.route_only

\* C5: a SetDomains call on an eligible link whose body has, at any position,
\* an element to refuse returns invalid-argument before polkit is asked and
\* leaves the search-domain list as it was; a body without such an element,
\* the root domain as route-only included, is not refused, and when granted
\* the root domain is in the list.
SetDomainsRejectsWhole ==
    (HandlerReturned /\ last.message.method = "SetDomains"
        /\ last.message.kind = "ok" /\ ~Ineligible(last.pre)) =>
        IF \E i \in DOMAIN last.message.items : Refused(last.message.items[i])
        THEN /\ last.r = InvalidArgs
             /\ Untouched
             /\ last.calls = <<"read">>
        ELSE /\ last.r # InvalidArgs
             /\ (last.auth = "Granted" /\ last.fail = NoFail) =>
                  /\ last.r = Replied
                  /\ \A i \in DOMAIN last.message.items :
                       \E j \in DOMAIN link.search_domains :
                         link.search_domains[j].name = last.message.items[i].name

\* SetDomains([("a.example", false), (".", false)]) on a link that has
\* search domains.
SetDomainsRejectsWholeWitness ==
    /\ HandlerReturned
    /\ last.message.method = "SetDomains" /\ last.message.kind = "ok"
    /\ last.message.items = << [name |-> "a.example", route_only |-> FALSE],
                               [name |-> ".", route_only |-> FALSE] >>
    /\ last.pre.search_domains # <<>>
    /\ last.r = InvalidArgs
    /\ link.search_domains = last.pre.search_domains

\* What the finders match on: a server by family, address and server name,
\* a search domain by name.
ServerKey(s) == <<s.family, s.address, s.server_name>>

DomainKey(d) == d.name

Ids(list) == { list[i].id : i \in DOMAIN list }

\* The candidates of the last request, as the handler decodes them.
Candidates ==
    IF last.message.method = "SetDomains" THEN last.message.items
    ELSE bus_message_read_dns_servers(last.message,
                                      last.message.method = "SetDNSEx").dns

\* Position of the first candidate of key k among the keys CK.
FirstAt(CK, k) == CHOOSE c \in DOMAIN CK : CK[c] = k /\ \A b \in 1..(c - 1) : CK[b] # k

\* List F is list L replaced by the candidates of keys CK.
Replaced(L, F, CK, KeyOf(_)) ==
    LET KeysL == { KeyOf(L[i]) : i \in DOMAIN L } IN
    /\ { KeyOf(F[j]) : j \in DOMAIN F } = Range(CK)
    /\ Marked(F) = {}
       \* an entry of L is in F iff a candidate has its key, and it is as it was
    /\ \A i \in DOMAIN L :
         (KeyOf(L[i]) \in Range(CK)) <=> (L[i].id \in Ids(F))
    /\ \A i \in DOMAIN L, j \in DOMAIN F :
         F[j].id = L[i].id => KeyOf(F[j]) = KeyOf(L[i])
       \* a key L did not have has one entry, a new one, which went to the
       \* end: what stands behind it was put there for a later candidate
    /\ \A k \in Range(CK) \ KeysL :
         \E j \in DOMAIN F :
           /\ KeyOf(F[j]) = k
           /\ F[j].id \notin Ids(L)
           /\ \A h \in DOMAIN F : KeyOf(F[h]) = k => h = j
           /\ \A h \in (j + 1)..Len(F) :
                \E c \in DOMAIN CK : c > FirstAt(CK, k) /\ CK[c] = KeyOf(F[h])
       \* the keys of L in another order: the same entries
    /\ (Range(CK) = KeysL /\ Cardinality(KeysL) = Len(L)) => Ids(F) = Ids(L)

SetDNSAgainKeepsEntries ==
    (last.returned /\ last.message.method = "SetDNS" /\ last.again
        /\ last.r = Replied) =>
        /\ last.post.dns_servers = last.pre.dns_servers
        /\ last.post.current_dns_server = last.pre.current_dns_server
        /\ link = last.pre

\* The second SetDNS of a two-server list, on a link that has picked its
\* current server.
SetDNSAgainKeepsEntriesWitness ==
    /\ last.returned /\ last.message.method = "SetDNS" /\ last.again
    /\ last.r = Replied
    /\ Len(last.message.items) = 2
    /\ Len(last.pre.dns_servers) = 2
    /\ last.pre.current_dns_server # NoServer
    /\ link.current_dns_server = last.pre.current_dns_server

StringSetters == {"SetLLMNR", "SetMulticastDNS", "SetDNSOverTLS", "SetDNSSEC"}

\* C9: the empty string is not refused by a string setter, and when the call
\* is granted SetLLMNR("") leaves llmnr_support yes, SetMulticastDNS("")
\* leaves mdns_support no, SetDNSSEC("") and SetDNSOverTLS("") leave the
\* link's mode unset.
EmptyStringIsDefault ==
    (HandlerReturned /\ last.message.method \in StringSetters
        /\ last.message.kind = "ok" /\ last.message.s = ""
        /\ ~Ineligible(last.pre)) =>
        /\ last.r # InvalidArgs
        /\ last.auth = "Granted" =>
             /\ last.r = Replied
             /\ last.message.method = "SetLLMNR" => link.llmnr_support = "yes"
             /\ last.message.method = "SetMulticastDNS" => link.mdns_support = "no"
             /\ last.message.method = "SetDNSSEC" => link.dnssec_mode = ModeInvalid
             /\ last.message.method = "SetDNSOverTLS" =>
                  link.dns_over_tls_mode = ModeInvalid

\* SetLLMNR("") on a link whose LLMNR was off.
EmptyStringIsDefaultWitness ==
    /\ HandlerReturned /\ last.message.method = "SetLLMNR"
    /\ last.message.kind = "ok" /\ last.message.s = ""
    /\ last.auth = "Granted"
    /\ last.pre.llmnr_support = "no"
    /\ link.llmnr_support = "yes"

ScalarSetters == StringSetters \cup {"SetDefaultRoute"}

Recomputation ==
    {"link_allocate_scopes", "link_add_rrs", "manager_write_resolv_conf",
     "link_save_user"}

\* C10: a granted call of a scalar setter whose value is the one the link
\* has replies and runs none of link_allocate_scopes(), link_add_rrs(),
\* manager_write_resolv_conf(), link_save_user().
EqualValueIsNoOp ==
    (last.returned /\ last.message.method \in ScalarSetters
        /\ last.r = Replied /\ last.post = last.pre) =>
        Range(last.calls) \cap Recomputation = {}

\* C11: a granted SetDNSSECNegativeTrustAnchors whose names are all valid
\* leaves as the link's set the set of the names sent (a name sent twice is
\* in it once, no other name of the old set stays, no name gives the empty
\* set); a call with a name that is no domain name returns invalid-argument
\* and the set is the one the link had.
SetNTAReplacesWholeSet ==
    (HandlerReturned /\ last.message.method = "SetDNSSECNegativeTrustAnchors"
        /\ last.message.kind = "ok" /\ ~Ineligible(last.pre)) =>
        IF \E i \in DOMAIN last.message.items :
             ~dns_name_is_valid(last.message.items[i])
        THEN /\ last.r = InvalidArgs
             /\ Untouched
        ELSE /\ last.r # InvalidArgs
             /\ last.auth = "Granted" =>
                  /\ last.r = Replied
                  /\ link.dnssec_negative_trust_anchors = Range(last.message.items)
                  /\ last.message.items = <<>> =>
                       link.dnssec_negative_trust_anchors = {}

\* A link with anchor a.example is sent b.example twice.
SetNTAReplacesWholeSetWitness ==
    /\ HandlerReturned /\ last.r = Replied
    /\ last.message.method = "SetDNSSECNegativeTrustAnchors"
    /\ last.message.items = <<"b.example", "b.example">>
    /\ last.pre.dnssec_negative_trust_anchors = {"a.example"}
    /\ link.dnssec_negative_trust_anchors = {"b.example"}

\* A link without overrides: no servers, no search domains, no anchors, the
\* modes unset, LLMNR on, mDNS off, default_route undecided.
AtDefaults(l) ==
    /\ l.dns_servers = <<>>
    /\ l.current_dns_server = NoServer
    /\ l.search_domains = <<>>
    /\ l.dnssec_negative_trust_anchors = {}
    /\ l.dnssec_mode = ModeInvalid
    /\ l.dns_over_tls_mode = ModeInvalid
    /\ l.llmnr_support = "yes"
    /\ l.mdns_support = "no"
    /\ l.default_route = -1

\* C12: a granted Revert on an eligible link leaves the link without
\* overrides, having flushed first, then reallocated the scopes, announced
\* the records again, saved, written resolv.conf and sent the change, and
\* replies; a Revert that is Busy, denied or pending changes nothing and
\* runs none of these.
RevertFlushesFirst ==
    (HandlerReturned /\ last.message.method = "Revert") =>
        IF ~Ineligible(last.pre) /\ last.auth = "Granted"
        THEN /\ last.r = Replied
             /\ AtDefaults(link)
             /\ link.flags_loopback = last.pre.flags_loopback
             /\ link.is_managed = last.pre.is_managed
             /\ last.calls =
                  <<"polkit", "link_flush_settings", "link_allocate_scopes",
                    "link_add_rrs", "link_save_user", "manager_write_resolv_conf",
                    "manager_send_changed", "sd_bus_reply_method_return">>
        ELSE /\ last.r = IF Ineligible(last.pre) THEN Busy
                         ELSE IF last.auth = "Denied" THEN AccessDenied
                         ELSE PolkitPending
             /\ Untouched
             /\ Effects(last.calls) = {}

\* A granted Revert of a link that has DNS servers and a current one.
RevertFlushesFirstWitness ==
    /\ HandlerReturned /\ last.message.method = "Revert"
    /\ last.auth = "Granted" /\ last.r = Replied
    /\ Len(last.pre.dns_servers) = 2
    /\ last.pre.current_dns_server # NoServer
    /\ AtDefaults(link)

\* What the last request, granted, does to the link it found when nothing
\* fails.
WhenNothingFails == link_vtable(last.pre, last.message, "Granted", NoFail)

\* C13: when a side effect a granted call runs (link_save_user(),
\* manager_write_resolv_conf(), manager_send_changed()) fails, the call
\* replies all the same and the link is as the call leaves it when nothing
\* fails.
SideEffectFailureIsSwallowed ==
    (HandlerReturned /\ last.fail.what \in SideEffects
        /\ last.fail.what \in Range(WhenNothingFails.calls)) =>
        /\ last.r = Replied
        /\ last.calls = WhenNothingFails.calls
        /\ last.calls[Len(last.calls)] = "sd_bus_reply_method_return"
        /\ last.post = WhenNothingFails.l
        /\ link = Compact(last.post)

\* manager_write_resolv_conf() fails in a SetDNS that changes the list.
SideEffectFailureIsSwallowedWitness ==
    /\ HandlerReturned /\ last.message.method = "SetDNS"
    /\ last.fail.what = "manager_write_resolv_conf"
    /\ last.fail.what \in Range(WhenNothingFails.calls)
    /\ last.r = Replied
    /\ last.pre.dns_servers # <<>>
    /\ Ids(last.post.dns_servers) # Ids(last.pre.dns_servers)

(***************************************************************************)
(* Properties of udevadm info.                                             *)
(***************************************************************************)
InfoReturned == udevadm.tool = "info" /\ udevadm.returned

\* The command line has option c.
Given(c) == \E i \in DOMAIN udevadm.options : udevadm.options[i].c = c

\* The i-th option is a -q of a type there is not.
UnknownQueryAt(i) ==
    /\ udevadm.options[i].c = "q"
    /\ udevadm.options[i].optarg \notin
         {"name", "symlink", "path", "property", "env", "all"}

\* The device arguments: those of -n, then the positional ones.
DeviceArguments ==
    [i \in 1..Cardinality({ j \in DOMAIN udevadm.options :
                              udevadm.options[j].c = "n" }) |-> <<"dev", "sda">>]
        \o udevadm.positional

SomeUnresolved ==
    \E i \in DOMAIN DeviceArguments : DeviceArguments[i][2] # "sda"

ExportWithValue == (Given("x") \/ Given("P")) /\ Given("value")

NothingLookedUpOrPrinted == udevadm.out.lookups = <<>> /\ udevadm.out.printed = <<>>

\* C14 as stated: the run fails whenever a device argument is not resolved,
\* a query type is unknown, export comes with --value, -a comes with more
\* than one device or -d with a positional argument, and in the last three
\* cases no device has been looked up or printed.
InfoFailsOnEveryConflict ==
    InfoReturned =>
        /\ (\/ SomeUnresolved
            \/ \E i \in DOMAIN udevadm.options : UnknownQueryAt(i)
            \/ ExportWithValue
            \/ Given("a") /\ Len(DeviceArguments) > 1
            \/ Given("d") /\ udevadm.positional # <<>>) => udevadm.out.r # "0"
        /\ (\/ ExportWithValue
            \/ Given("a") /\ Len(DeviceArguments) > 1
            \/ Given("d") /\ udevadm.positional # <<>>) => NothingLookedUpOrPrinted

\* The i-th option ends the run where it is parsed.
EndsRunAt(i) == udevadm.options[i].c \in {"c", "e"} \/ UnknownQueryAt(i)

\* The action in force after the options: that of the last of -a, -d, -q,
\* a query when there is none.
ActionGiven ==
    LET S == { i \in DOMAIN udevadm.options : udevadm.options[i].c \in {"a", "d", "q"} }
    IN  IF S = {} THEN "q"
        ELSE udevadm.options[CHOOSE i \in S : \A j \in S : j <= i].c

\* C14, amended: an unknown query type fails the run unless -e or -c stands
\* before it; when no option ends the run, the run fails if the action is
\* -d and there is a positional argument, if the action is -a and there
\* is more than one device, if the action is not -d and export comes with
\* --value or a device argument is not resolved; and in the three conflicts
\* nothing has been looked up or printed.
InfoFailsOnConflictInForce ==
    InfoReturned =>
        /\ \A i \in DOMAIN udevadm.options :
             (UnknownQueryAt(i) /\ \A j \in 1..(i - 1) : ~EndsRunAt(j)) =>
               udevadm.out.r = EINVAL
        /\ (\A i \in DOMAIN udevadm.options : ~EndsRunAt(i)) =>
             /\ (ActionGiven = "d" /\ udevadm.positional # <<>>) =>
                  udevadm.out.r = EINVAL /\ NothingLookedUpOrPrinted
             /\ (ActionGiven = "a" /\ Len(DeviceArguments) > 1) =>
                  udevadm.out.r = EINVAL /\ NothingLookedUpOrPrinted
             /\ (ActionGiven # "d" /\ ExportWithValue) =>
                  udevadm.out.r = EINVAL /\ NothingLookedUpOrPrinted
             /\ (ActionGiven # "d" /\ SomeUnresolved) => udevadm.out.r # "0"

\* udevadm info -x --value /dev/sda
InfoFailsOnConflictInForceWitness ==
    /\ InfoReturned
    /\ udevadm.options = << [c |-> "x"], [c |-> "value"] >>
    /\ udevadm.positional = << <<"dev", "sda">> >>
    /\ udevadm.out.r = EINVAL
    /\ NothingLookedUpOrPrinted

\* No option before the i-th ends the run.
ReachedAt(i) == \A j \in 1..(i - 1) : ~EndsRunAt(j)

\* The query type in force after the options: that of the last -q, all
\* when there is none.
QueryGiven ==
    LET S == { i \in DOMAIN udevadm.options : udevadm.options[i].c = "q" }
    IN  IF S = {} THEN "QUERY_ALL"
        ELSE IF udevadm.options[CHOOSE i \in S : \A j \in S : j <= i].optarg = "path"
        THEN "QUERY_PATH" ELSE "QUERY_PROPERTY"

\* No check after the options stands in the way of a query or of a walk.
DevicesAreFine ==
    /\ DeviceArguments # <<>>
    /\ ~SomeUnresolved
    /\ ~ExportWithValue

\* C25: the options are processed from left to right. An -e or a -c that
\* the loop reaches ends the run there with its own result, whatever
\* options and conflicts follow; a -q of an unknown type that the loop
\* reaches fails the run, also with -e or -c after it. When no option ends
\* the run, the last of -a, -d and -q decides the action: after a last -q
\* every device is queried with the type of that -q, however many devices
\* there are and with positional arguments although -a or -d stands before;
\* after a last -a the one device is walked; after a last -d the file is
\* examined and no device is looked up.
InfoOptionsLeftToRight ==
    InfoReturned =>
        /\ \A i \in DOMAIN udevadm.options :
             ReachedAt(i) =>
               /\ udevadm.options[i].c = "e" =>
                    udevadm.out = InfoReturn("0", <<>>, << <<"export_devices">> >>)
               /\ udevadm.options[i].c = "c" =>
                    udevadm.out = InfoReturn("0", <<>>, <<>>)
               /\ UnknownQueryAt(i) =>
                    udevadm.out = InfoReturn(EINVAL, <<>>, <<>>)
        /\ (\A i \in DOMAIN udevadm.options : ~EndsRunAt(i)) =>
             /\ (ActionGiven = "q" /\ DevicesAreFine) =>
                  /\ udevadm.out.r = "0"
                  /\ udevadm.out.lookups = DeviceArguments
                  /\ udevadm.out.printed =
                       [i \in DOMAIN DeviceArguments |->
                          <<"query_device", QueryGiven, DeviceArguments[i]>>]
             /\ (ActionGiven = "a" /\ DevicesAreFine /\ Len(DeviceArguments) = 1) =>
                  /\ udevadm.out.r = "0"
                  /\ udevadm.out.printed =
                       << <<"print_device_chain", DeviceArguments[1]>> >>
             /\ (ActionGiven = "d" /\ udevadm.positional = <<>>) =>
                  /\ udevadm.out.r = "0"
                  /\ udevadm.out.lookups = <<>>
                  /\ udevadm.out.printed \in
                       { << <<"major:minor">> >>,
                         << <<"INFO_", "MAJOR=">>, <<"INFO_", "MINOR=">> >>,
                         << <<"UDEV_", "MAJOR=">>, <<"UDEV_", "MINOR=">> >> }

\* udevadm info -a -q path /dev/sda /dev/sda: both devices are queried for
\* their path, although -a takes one device only.
InfoOptionsLeftToRightWitness ==
    /\ InfoReturned
    /\ udevadm.options = << [c |-> "a"], [c |-> "q", optarg |-> "path"] >>
    /\ udevadm.positional = << <<"dev", "sda">>, <<"dev", "sda">> >>
    /\ udevadm.out.r = "0"
    /\ udevadm.out.printed = << <<"query_device", "QUERY_PATH", <<"dev", "sda">>>>,
                                <<"query_device", "QUERY_PATH", <<"dev", "sda">>>> >>

NoneMarked(l) ==
    /\ Marked(l.dns_servers) = {}
    /\ Marked(l.search_domains) = {}

\* C16: between calls, and when a handler has just returned with whatever
\* outcome (reply, Busy, invalid argument, denied, pending, failure while
\* reconciling), no entry of the link's DNS server list or of its search
\* domain list is marked.
MarksNeverOutliveCall ==
    /\ NoneMarked(link)
    /\ HandlerReturned => NoneMarked(last.post)

\* A granted SetDomains on a list of which it keeps one entry and sweeps
\* another: the mark phase marked both, and none is marked afterwards.
MarksNeverOutliveCallWitness ==
    /\ HandlerReturned
    /\ last.message.method = "SetDomains"
    /\ last.r = Replied
    /\ \E i \in DOMAIN last.pre.search_domains :
         \E j \in DOMAIN last.post.search_domains :
            last.post.search_domains[j].id = last.pre.search_domains[i].id
    /\ \E i \in DOMAIN last.pre.search_domains :
         \A j \in DOMAIN last.post.search_domains :
            last.post.search_domains[j].id # last.pre.search_domains[i].id
    /\ NoneMarked(last.post)
    /\ NoneMarked(link)

\* The key of a DNS server with the port in it.
ServerKeyWithPort(s) == <<s.family, s.address, s.port, s.server_name>>

Distinct(list, KeyOf(_)) ==
    \A i, j \in DOMAIN list : KeyOf(list[i]) = KeyOf(list[j]) => i = j

UniqueKeys(l) ==
    /\ Distinct(l.dns_servers, ServerKeyWithPort)
    /\ Distinct(l.search_domains, DomainKey)

\* Some key comes more than once among the candidates of the last request.
SuppliesKeyTwice(KeyOf(_)) ==
    \E a, b \in DOMAIN Candidates :
        a # b /\ KeyOf(Candidates[a]) = KeyOf(Candidates[b])

\* C17: in every state the entries of the link's DNS server list differ
\* pairwise in (family, address, port, server name) and those of its search
\* domain list differ pairwise in name, and so do the lists every handler
\* returns, also when the candidates of a granted replace have a key more
\* than once: the list then has one entry of that key.
ListKeysAreUnique ==
    /\ UniqueKeys(link)
    /\ HandlerReturned => UniqueKeys(last.post)
    /\ (HandlerReturned /\ last.r = Replied
          /\ last.message.method \in {"SetDNS", "SetDNSEx"}) =>
         \A c \in DOMAIN Candidates :
            Cardinality({ j \in DOMAIN last.post.dns_servers :
                            ServerKeyWithPort(last.post.dns_servers[j])
                              = ServerKeyWithPort(Candidates[c]) }) <= 1
    /\ (HandlerReturned /\ last.r = Replied /\ last.message.method = "SetDomains") =>
         \A c \in DOMAIN Candidates :
            Cardinality({ j \in DOMAIN last.post.search_domains :
                            DomainKey(last.post.search_domains[j])
                              = DomainKey(Candidates[c]) }) = 1

\* A granted SetDomains of the same name twice on a list that does not have
\* it: the second occurrence finds the entry made for the first.
ListKeysAreUniqueWitness ==
    /\ HandlerReturned /\ last.r = Replied
    /\ last.message.method = "SetDomains"
    /\ Len(Candidates) = 2
    /\ SuppliesKeyTwice(DomainKey)
    /\ \A i \in DOMAIN last.pre.search_domains :
         DomainKey(last.pre.search_domains[i]) # DomainKey(Candidates[1])
    /\ Len(last.post.search_domains) = 1
    /\ DomainKey(last.post.search_domains[1]) = DomainKey(Candidates[1])
    /\ last.post.search_domains[1].id \notin Ids(last.pre.search_domains)

\* The request has an entry its setter does not accept: an address that is
\* not one, a domain name that is not valid or is the root without
\* route-only, a name of a trust anchor that is not valid, a mode string
\* that is neither empty nor a mode.
HasInvalidEntry(message) ==
    CASE message.method \in {"SetDNS", "SetDNSEx"} -> message.kind = "invalid"
      [] message.method = "SetDomains" ->
           /\ message.kind = "ok"
           /\ \E i \in DOMAIN message.items : Refused(message.items[i])
      [] message.method = "SetDNSSECNegativeTrustAnchors" ->
           /\ message.kind = "ok"
           /\ \E i \in DOMAIN message.items : message.items[i] \in BadNtaNames
      [] message.method \in {"SetLLMNR", "SetMulticastDNS"} ->
           message.kind = "ok" /\ message.s \notin {"", "no", "yes", "resolve"}
      [] message.method = "SetDNSOverTLS" ->
           message.kind = "ok" /\ message.s \notin {"", "no", "yes", "opportunistic"}
      [] message.method = "SetDNSSEC" ->
           message.kind = "ok" /\ message.s \notin {"", "no", "yes", "allow-downgrade"}
      [] OTHER -> FALSE

\* The handler returned from its decoding: polkit was not asked, nothing
\* was recomputed, saved or sent, and the link is as it was.
StoppedBeforeGate ==
    /\ "polkit" \notin Range(last.calls)
    /\ Effects(last.calls) = {}
    /\ Untouched

\* C18: a call of a setter on an eligible link whose request has an invalid
\* entry, at whatever position, returns invalid-argument without polkit
\* having been asked, with the link unchanged and with nothing recomputed,
\* saved or sent; a request whose body cannot be read returns the error of
\* the read in the same way.
ValidationComesBeforeGate ==
    /\ (HandlerReturned /\ ~Ineligible(last.pre) /\ HasInvalidEntry(last.message)) =>
         last.r = InvalidArgs /\ StoppedBeforeGate
    /\ (HandlerReturned /\ ~Ineligible(last.pre)
          /\ last.message.kind = "unparsable") =>
         last.r = ParseError /\ StoppedBeforeGate

\* SetDNSSECNegativeTrustAnchors(["a.example", "bad..name"]) on an eligible
\* link that has trust anchors.
ValidationComesBeforeGateWitness ==
    /\ HandlerReturned /\ ~Ineligible(last.pre)
    /\ last.message.method = "SetDNSSECNegativeTrustAnchors"
    /\ last.message.kind = "ok"
    /\ last.message.items = <<"a.example", "bad..name">>
    /\ last.pre.dnssec_negative_trust_anchors # {}
    /\ last.r = InvalidArgs
    /\ "polkit" \notin Range(last.calls)
    /\ link = last.pre

ReplaceSetters == {"SetDNS", "SetDNSEx", "SetDomains"}

\* The list the last request is about, in a link.
ListOf(l) ==
    IF last.message.method = "SetDomains" THEN l.search_domains ELSE l.dns_servers

CandidateKey(c) ==
    IF last.message.method = "SetDomains" THEN DomainKey(Candidates[c])
    ELSE ServerKey(Candidates[c])

EntryKey(e) ==
    IF last.message.method = "SetDomains" THEN DomainKey(e) ELSE ServerKey(e)

\* The handler went past polkit and did not reply: its reconcile phase
\* failed.
ReconcileFailed ==
    /\ HandlerReturned
    /\ last.message.method \in ReplaceSetters
    /\ "polkit" \in Range(last.calls)
    /\ last.r \notin {Replied, PolkitPending, AccessDenied}

\* The injected failure is one the reconcile phase runs into: a read or a
\* find of SetDomains, or the creation of an entry for a candidate whose
\* key neither the list nor an earlier candidate has.
FailureIsMet ==
    /\ HandlerReturned
    /\ last.message.method \in ReplaceSetters
    /\ last.fail.at > 0
    /\ \/ last.fail.what \in {"read", "find"}
       \/ /\ last.fail.what = "new"
          /\ \A i \in DOMAIN ListOf(last.pre) :
               EntryKey(ListOf(last.pre)[i]) # CandidateKey(last.fail.at)
          /\ \A c \in 1..(last.fail.at - 1) :
               CandidateKey(c) # CandidateKey(last.fail.at)

\* C19: when the reconcile phase of a granted SetDNS, SetDNSEx or SetDomains
\* fails (an entry cannot be made or, for SetDomains, the finder or the read
\* of the message fails), after however many candidates, the handler returns
\* the error without replying and the list is empty: the entries the
\* candidates had re-supplied are gone with the rest.
ReconcileFailureUnlinksAll ==
    /\ FailureIsMet => ReconcileFailed
    /\ ReconcileFailed =>
         /\ last.r \in {NoMemory, ParseError}
         /\ "sd_bus_reply_method_return" \notin Range(last.calls)
         /\ ListOf(last.post) = <<>>
         /\ ListOf(link) = <<>>

\* SetDomains of a name the list has and of one it does not have, where
\* making the entry for the second fails: the entry kept for the first is
\* gone as well.
ReconcileFailureUnlinksAllWitness ==
    /\ ReconcileFailed
    /\ last.message.method = "SetDomains"
    /\ Len(Candidates) = 2
    /\ last.fail = [at |-> 2, what |-> "new"]
    /\ \E i \in DOMAIN last.pre.search_domains :
         DomainKey(last.pre.search_domains[i]) = DomainKey(Candidates[1])
    /\ last.r = NoMemory
    /\ last.post.search_domains = <<>>
    /\ link.search_domains = <<>>

\* The list the last request is about, as the state file holds it.
SavedListOf(s) ==
    IF last.message.method = "SetDomains" THEN s.search_domains ELSE s.dns_servers

\* The list in memory is not the one of the state file.
DiffersFromSaved == SavedListOf(link_save_user(link)) # SavedListOf(saved)

\* The failed reconciliation ran no side effect and left the list empty.
FailureRanNoEffect ==
    /\ Effects(last.calls) = {}
    /\ ListOf(last.post) = <<>>
    /\ ListOf(link) = <<>>

\* C24, as stated: when the reconcile phase of SetDNS, SetDNSEx or SetDomains
\* fails, the list is emptied and no side effect of the success path runs
\* (no scopes reallocated, no state file written, no resolver file
\* regenerated, no change notification), so the list in memory, empty,
\* differs from what was last persisted.
ReconcileFailureDiffersFromSaved ==
    ReconcileFailed => FailureRanNoEffect /\ DiffersFromSaved

\* The step in which a handler returns from a failed reconciliation.
ReconcileFailureStep == ~last.returned /\ ReconcileFailed'

\* A list is empty in memory while the state file has entries for it.
DnsStale == link.dns_servers = <<>> /\ saved.dns_servers # <<>>

DomainsStale == link.search_domains = <<>> /\ saved.search_domains # <<>>

\* The step of a handler that replies.
RepliedStep == ~last.returned /\ last'.returned /\ last'.r = Replied

\* C24, amended: when the reconcile phase of SetDNS, SetDNSEx or SetDomains
\* fails, the list is emptied and no side effect of the success path runs
\* (no scopes reallocated, no state file written, no resolver file
\* regenerated, no change notification); the state file is as it was before
\* the call, so the list in memory, empty, differs from what was last
\* persisted exactly when that was not empty, and then goes on differing
\* until a later call succeeds.
ReconcileFailureSkipsEffects ==
    /\ [](ReconcileFailed =>
            /\ FailureRanNoEffect
            /\ DiffersFromSaved <=> SavedListOf(saved) # <<>>)
    /\ [][ReconcileFailureStep => saved' = saved]_vars
    /\ [][DnsStale /\ ~DnsStale' => RepliedStep]_vars
    /\ [][DomainsStale /\ ~DomainsStale' => RepliedStep]_vars

\* SetDNS of a server the list does not have, on a link whose one server is
\* in the state file, where making the entry fails: the list is empty and
\* the state file still has the server.
ReconcileFailureSkipsEffectsWitness ==
    /\ ReconcileFailed
    /\ last.message.method = "SetDNS"
    /\ last.fail = [at |-> 1, what |-> "new"]
    /\ Len(last.pre.dns_servers) = 1
    /\ link.dns_servers = <<>>
    /\ Len(saved.dns_servers) = 1
    /\ saved.dns_servers[1].address = last.pre.dns_servers[1].address
    /\ Effects(last.calls) = {}

\* A call of a replace-set method is suspended and the link is as the
\* suspended invocation left it: nothing has changed it since.
SuspendedUndisturbed ==
    /\ ~last.returned
    /\ last.r = PolkitPending
    /\ last.message.method \in ReplaceSetters
    /\ pending = last.message
    /\ link_exists
    /\ link = Compact(last.post)

\* The handler as it runs when polkit grants the call at once, on the link
\* the suspended call came upon.
GrantedAtOnce(fail) == link_vtable(last.pre, last.message, "Granted", fail)

\* The step in which the suspended call is run again with polkit's grant
\* ends as the call granted at once: the same list (the same entries, in
\* the same order), the same return value and the same calls.
RestartAsGrantedAtOnce ==
    (SuspendedUndisturbed /\ last'.returned /\ last'.decision = "Granted") =>
        /\ last'.message = last.message
        /\ last'.post = GrantedAtOnce(last'.fail).l
        /\ last'.r = GrantedAtOnce(last'.fail).r
        /\ last'.calls = GrantedAtOnce(last'.fail).calls
        /\ link' = Compact(GrantedAtOnce(last'.fail).l)

\* C20: a SetDNS, SetDNSEx or SetDomains call that polkit first leaves
\* pending and that is run again from its beginning once polkit has granted
\* it, nothing having touched the link in between, leaves the list and
\* returns what the same call on the same link leaves and returns when
\* polkit grants it at once.
RestartIsIdempotent == [][RestartAsGrantedAtOnce]_vars

\* A SetDomains that was suspended has been run again with the grant and has
\* kept an entry of the list, dropped one and made one.
RestartIsIdempotentWitness ==
    /\ HandlerReturned
    /\ last.decision = "Granted"
    /\ last.message.method = "SetDomains"
    /\ last.r = Replied
    /\ Ids(last.post.search_domains) \cap Ids(last.pre.search_domains) # {}
    /\ Ids(last.pre.search_domains) \ Ids(last.post.search_domains) # {}
    /\ Ids(last.post.search_domains) \ Ids(last.pre.search_domains) # {}

\* A granted SetDomains has replied.
SetDomainsReplied ==
    /\ HandlerReturned
    /\ last.message.method = "SetDomains"
    /\ last.r = Replied

\* The last candidate of the request that has this name.
LastSupplying(name) ==
    CHOOSE c \in DOMAIN Candidates :
        /\ Candidates[c].name = name
        /\ \A b \in DOMAIN Candidates : Candidates[b].name = name => b <= c

\* C21: after a granted SetDomains that succeeds, each entry of the list the
\* call found whose name a candidate has is still in the list, the same
\* entry under the same name; each name the list did not have has an entry
\* that is new; and the route_only of every entry is that of the last
\* candidate that has its name.
SetDomainsUpdatesInPlace ==
    SetDomainsReplied =>
        LET L == last.pre.search_domains
            F == last.post.search_domains
        IN  /\ \A i \in DOMAIN L :
                 (\E c \in DOMAIN Candidates : Candidates[c].name = L[i].name) =>
                     \E j \in DOMAIN F : F[j].id = L[i].id /\ F[j].name = L[i].name
            /\ \A c \in DOMAIN Candidates :
                 (\A i \in DOMAIN L : L[i].name # Candidates[c].name) =>
                     \E j \in DOMAIN F :
                        F[j].name = Candidates[c].name /\ F[j].id \notin Ids(L)
            /\ \A j \in DOMAIN F :
                 /\ \E c \in DOMAIN Candidates : Candidates[c].name = F[j].name
                 /\ F[j].route_only = Candidates[LastSupplying(F[j].name)].route_only
            /\ link.search_domains = Compact(last.post).search_domains

\* SetDomains([("a.example", true), ("b.example", false)]) on a list that has
\* a.example as a search domain (route_only false) and not b.example: the
\* entry of a.example is kept and is route-only now, b.example is new.
SetDomainsUpdatesInPlaceWitness ==
    /\ SetDomainsReplied
    /\ Candidates = << [name |-> "a.example", route_only |-> TRUE],
                       [name |-> "b.example", route_only |-> FALSE] >>
    /\ Len(last.pre.search_domains) = 1
    /\ last.pre.search_domains[1].name = "a.example"
    /\ ~last.pre.search_domains[1].route_only
    /\ Len(last.post.search_domains) = 2
    /\ last.post.search_domains[1].id = last.pre.search_domains[1].id
    /\ last.post.search_domains[1].route_only
    /\ last.post.search_domains[2].name = "b.example"
    /\ ~last.post.search_domains[2].route_only

\* The positions of the candidates after which no candidate has the same
\* key, in ascending order.
LastOccurrences ==
    SelectSeq([c \in DOMAIN Candidates |-> c],
              LAMBDA c : \A b \in DOMAIN Candidates :
                            CandidateKey(b) = CandidateKey(c) => b <= c)

ResumedAndReplied ==
    /\ HandlerReturned
    /\ last.decision = "Granted"
    /\ last.message.method \in ReplaceSetters
    /\ last.r = Replied

CandidateKeys == { CandidateKey(c) : c \in DOMAIN Candidates }

Keys(servers) == [i \in DOMAIN servers |-> ServerKey(servers[i])]

WalkReturned == udevadm.tool = "walk" /\ udevadm.returned

HasAttr(name) == \E a \in Range(udevadm.sysattrs) : a[1] = name

ExcludedNames == {uevent, dev, modalias, resource, driver, subsystem, module}

StartsWithSlash(value) == Len(value) > 0 /\ value[1] = 47

HasNonPrintable(value) == \E i \in DOMAIN value : value[i] < 32 \/ value[i] > 126

\* The attribute lines are in strictly ascending order of name, byte by
\* byte.
SortedByName(printed) ==
    \A i, j \in DOMAIN printed :
        i < j => strcmp(printed[i].name, printed[j].name) < 0

\* The table lists exactly the attributes that the rules keep, with their
\* values, when the read errors in permission get "(write-only)".
TableFollowsRules(printed, permission) ==
    /\ SortedByName(printed)
    /\ \A p \in Range(printed) : HasAttr(p.name)
    /\ \A a \in Range(udevadm.sysattrs) :
         LET name == a[1]
             read == a[2]
             lines == { p \in Range(printed) : p.name = name }
         IN IF name \in ExcludedNames THEN lines = {}
            ELSE IF read.r = "0"
            THEN IF StartsWithSlash(read.value) \/ HasNonPrintable(read.value)
                 THEN lines = {}
                 ELSE lines = {[name |-> name, value |-> read.value]}
            ELSE IF read.r \in permission
            THEN lines = {[name |-> name, value |-> write_only]}
            ELSE lines = {}

====
